---- MODULE Spec2Model ----
(***************************************************************************)
(* tella: the /sms webhook (src/src/index.ts), the Account Directory      *)
(* (src/src/db.ts, PostgreSQL variant), the Identity Hasher               *)
(* (src/src/utils.ts) and the Settlement Adapter (intent_gateway.ts, kept *)
(* in src/unnamed/part_002).                                              *)
(*                                                                         *)
(* Every inbound message is one request.  A request runs its handler one  *)
(* await at a time: the code between two awaits is one atomic step of the *)
(* single-threaded runtime, and steps of different requests interleave.   *)
(***************************************************************************)
EXTENDS Integers, Sequences, FiniteSets, TLC

(***************************************************************************)
(* Bounds of the model.                                                    *)
(***************************************************************************)
\* number of inbound messages of one run
MaxReq == 2
\* number of clock ticks of one run
MaxTicks == 1
\* Date.now() when the first message arrives
Now0 == 5

(***************************************************************************)
(* Program constants.                                                      *)
(***************************************************************************)
EXPIRES_MS == 300000
MAX_BODY_LENGTH == 320
\* the length of a SHA-256 digest in hex, and of a phone_hash
HASH_HEX_LENGTH == 64

(***************************************************************************)
(* JavaScript values as the handlers see them.  node-postgres returns a   *)
(* BOOLEAN column as a JS boolean, and === compares type and value.       *)
(***************************************************************************)
JsBool(b) == [t |-> "boolean", v |-> IF b THEN 1 ELSE 0]

JsNum(n) == [t |-> "number", v |-> n]

StrictEq(a, b) == a.t = b.t /\ a.v = b.v

Truthy(a) == a.v # 0

(***************************************************************************)
(* utils.ts: contacts are strings, modelled as sequences of characters.   *)
(***************************************************************************)
DigitChars == {"0", "1", "2", "3", "4", "5", "6", "7", "8", "9"}

RECURSIVE TrimLeft(_)
TrimLeft(s) == IF s # <<>> /\ Head(s) = " " THEN TrimLeft(Tail(s)) ELSE s

RECURSIVE TrimRight(_)
TrimRight(s) ==
    IF s # <<>> /\ s[Len(s)] = " " THEN TrimRight(SubSeq(s, 1, Len(s) - 1)) ELSE s

Trim(s) == TrimRight(TrimLeft(s))

IsDigit(c) == c \in DigitChars

StripNonDigits(s) == SelectSeq(s, IsDigit)

\* the result of a call that may throw
Ok(v) == [ok |-> TRUE, val |-> v]

Throw(m) == [ok |-> FALSE, val |-> m]

\* a normalization without the test of the country code
normalizePhoneAnyCountry(phone) ==
    IF Trim(phone) = <<>> THEN Throw("Phone number is required")
    ELSE LET digits == StripNonDigits(Trim(phone)) IN
         IF Len(digits) = 0 THEN Throw("Phone number must contain digits")
         ELSE IF Len(digits) < 10
              THEN Throw("Phone number must contain at least 10 digits")
         ELSE IF Len(digits) = 10 THEN Ok(<<"+", "1">> \o digits)
         ELSE IF Len(digits) # 11
              THEN Throw("Phone number must contain 10 or 11 digits")
         ELSE Ok(<<"+">> \o digits)

normalizePhoneToE164(phone) ==
    IF Trim(phone) = <<>> THEN Throw("Phone number is required")
    ELSE LET digits == StripNonDigits(Trim(phone)) IN
         IF Len(digits) = 0 THEN Throw("Phone number must contain digits")
         ELSE IF Len(digits) < 10
              THEN Throw("Phone number must contain at least 10 digits")
         ELSE IF Len(digits) = 10 THEN Ok(<<"+", "1">> \o digits)
         ELSE IF Len(digits) = 11 /\ Head(digits) # "1"
              THEN Throw("Invalid country code")
         ELSE IF Len(digits) # 11
              THEN Throw("Phone number must contain 10 or 11 digits")
         ELSE Ok(<<"+">> \o digits)

HexChars == DigitChars \cup {"a", "b", "c", "d", "e", "f"}

\* a long string, written as its first characters followed by n times one
\* character: 'g'.repeat(64) is Str(<<>>, "g", 64)
Str(head, fill, n) == [head |-> head, fill |-> fill, n |-> n]

StrLen(s) == Len(s.head) + s.n

StrChars(s) == {s.head[i] : i \in 1..Len(s.head)} \cup (IF s.n > 0 THEN {s.fill} ELSE {})

\* s.trim() === ''
StrBlank(s) == StrChars(s) \subseteq {" "}

\* HMAC-SHA256 under the process secret, .digest('hex'): 64 lower-case hex
\* characters, one digest per E.164 number, no collisions
HmacSha256Hex(msg) ==
    Str([i \in 1..Len(msg) |-> IF msg[i] \in DigitChars THEN msg[i] ELSE "a"],
        "0", HASH_HEX_LENGTH - Len(msg))

\* a hashPhone that digests the contact as it was written
hashPhoneRaw(phone) ==
    LET n == normalizePhoneToE164(phone) IN
    IF n.ok THEN Ok(HmacSha256Hex(phone)) ELSE n

hashPhone(phone) ==
    LET n == normalizePhoneToE164(phone) IN
    IF n.ok THEN Ok(HmacSha256Hex(n.val)) ELSE n

(***************************************************************************)
(* The contacts of the model.                                              *)
(***************************************************************************)
PhoneA == <<"4", "1", "5", "5", "5", "5", "0", "0", "0", "1">>

PhoneB == <<"+", "1", "4", "1", "5", "5", "5", "5", "1", "2", "3", "4">>

PhoneUnknown == <<"u", "n", "k", "n", "o", "w", "n">>

NoText == <<>>

HashA == hashPhone(PhoneA).val

HashB == hashPhone(PhoneB).val

Hashes == {HashA, HashB}

NoHash == Str(<<>>, "", 0)

Senders == {PhoneA, PhoneB, PhoneUnknown}

(***************************************************************************)
(* db.ts: the users table.  A column value is SQL NULL or a text; the     *)
(* text of pending_actions is empty, malformed, or the JSON of an object. *)
(***************************************************************************)
NoObj == [actionId |-> <<>>, amount |-> 0, recipientHash |-> NoHash, memo |-> "",
          expires |-> 0, senderPhone |-> NoText, recipientPhone |-> NoText]

SqlNull == [kind |-> "null", obj |-> NoObj]

EmptyText == [kind |-> "empty", obj |-> NoObj]

MalformedText == [kind |-> "malformed", obj |-> NoObj]

\* JSON.stringify of the object a direct intent stores
JsonStringify(o) == [kind |-> "json", obj |-> o]

\* JSON.parse: throws on a text that is not JSON
JsonParse(text) ==
    IF text.kind = "json" THEN Ok(text.obj) ELSE Throw("SyntaxError")

\* a truthiness under which only null is falsy
TextTruthyNonNull(text) == text.kind # "null"

\* truthiness of a column value read back: null and '' are falsy
TextTruthy(text) == text.kind \in {"json", "malformed"}

NoRow == [present |-> FALSE, wallet_init |-> FALSE, pending_actions |-> SqlNull,
          is_bank_linked |-> FALSE, phone |-> "", hashed_pin |-> "",
          stripe_customer_id |-> "", stripe_payment_method_id |-> ""]

\* String.prototype.toLowerCase on the characters a hash is written with
LowerOf(c) ==
    CASE c = "A" -> "a" [] c = "B" -> "b" [] c = "C" -> "c" [] c = "D" -> "d"
      [] c = "E" -> "e" [] c = "F" -> "f" [] c = "G" -> "g" [] OTHER -> c

toLowerCase(s) ==
    Str([i \in 1..Len(s.head) |-> LowerOf(s.head[i])], LowerOf(s.fill), s.n)

\* a validatePhoneHash that does not lower-case its argument
validatePhoneHashCaseSensitive(phoneHash) ==
    IF StrBlank(phoneHash) THEN Throw("Invalid phoneHash: non-empty string required")
    ELSE IF StrLen(phoneHash) # HASH_HEX_LENGTH \/ ~(StrChars(phoneHash) \subseteq HexChars)
         THEN Throw("Invalid phoneHash: must be 64-char hex")
         ELSE Ok(phoneHash)

\* a validatePhoneHash that tests the length only
validatePhoneHashLengthOnly(phoneHash) ==
    IF StrBlank(phoneHash) THEN Throw("Invalid phoneHash: non-empty string required")
    ELSE LET lower == toLowerCase(phoneHash) IN
         IF StrLen(lower) # HASH_HEX_LENGTH
         THEN Throw("Invalid phoneHash: must be 64-char hex")
         ELSE Ok(lower)

validatePhoneHash(phoneHash) ==
    IF StrBlank(phoneHash) THEN Throw("Invalid phoneHash: non-empty string required")
    ELSE LET lower == toLowerCase(phoneHash) IN
         IF StrLen(lower) # HASH_HEX_LENGTH \/ ~(StrChars(lower) \subseteq HexChars)
         THEN Throw("Invalid phoneHash: must be 64-char hex")
         ELSE Ok(lower)

validateWalletInit(walletInit) == IF walletInit THEN 1 ELSE 0

validateBankLinked(isBankLinked) == IF isBankLinked THEN 1 ELSE 0

validatePendingActions(pendingActions) == pendingActions

validatePhone(phone) ==
    IF phone = "" THEN Throw("Invalid phone: non-empty string required") ELSE Ok(phone)

validateHashedPin(hashedPin) ==
    IF hashedPin = "" THEN Throw("Invalid hashedPin: non-empty string required")
    ELSE Ok(hashedPin)

validateStripeCustomerId(stripeCustomerId) ==
    IF stripeCustomerId = ""
    THEN Throw("Invalid stripeCustomerId: non-empty string required")
    ELSE Ok(stripeCustomerId)

validateStripePaymentMethodId(stripePaymentMethodId) ==
    IF stripePaymentMethodId = ""
    THEN Throw("Invalid stripePaymentMethodId: non-empty string required")
    ELSE Ok(stripePaymentMethodId)

\* what getUser returns: null, or the row as JS values
NoUser == [found |-> FALSE, phone_hash |-> NoHash, wallet_init |-> JsBool(FALSE),
           pending_actions |-> SqlNull, is_bank_linked |-> JsBool(FALSE),
           phone |-> "", hashed_pin |-> "", stripe_customer_id |-> "",
           stripe_payment_method_id |-> ""]

getUser(table, phoneHash) ==
    LET h == validatePhoneHash(phoneHash) IN
    IF ~h.ok THEN h
    ELSE IF ~table[h.val].present THEN Ok(NoUser)
    ELSE Ok([found |-> TRUE,
             phone_hash |-> h.val,
             wallet_init |-> JsBool(table[h.val].wallet_init),
             pending_actions |-> table[h.val].pending_actions,
             is_bank_linked |-> JsBool(table[h.val].is_bank_linked),
             phone |-> table[h.val].phone,
             hashed_pin |-> table[h.val].hashed_pin,
             stripe_customer_id |-> table[h.val].stripe_customer_id,
             stripe_payment_method_id |-> table[h.val].stripe_payment_method_id])

\* an insertUser that does not validate phone, hashedPin and the Stripe ids
insertUserUnchecked(table, phoneHash, walletInit, pendingActions, isBankLinked, phone, hashedPin, stripeCustomerId, stripePaymentMethodId) ==
    LET h == validatePhoneHash(phoneHash) IN
    IF ~h.ok THEN h
    ELSE Ok([table EXCEPT ![h.val] =
                [present |-> TRUE,
                 wallet_init |-> validateWalletInit(walletInit) = 1,
                 pending_actions |-> validatePendingActions(pendingActions),
                 is_bank_linked |-> validateBankLinked(isBankLinked) = 1,
                 phone |-> phone, hashed_pin |-> hashedPin,
                 stripe_customer_id |-> stripeCustomerId,
                 stripe_payment_method_id |-> stripePaymentMethodId]])

\* INSERT ... ON CONFLICT (phone_hash) DO NOTHING
insertUserKeepsExisting(table, phoneHash, walletInit, pendingActions, isBankLinked, phone, hashedPin, stripeCustomerId, stripePaymentMethodId) ==
    LET res == insertUserUnchecked(table, phoneHash, walletInit, pendingActions,
                                   isBankLinked, phone, hashedPin, stripeCustomerId,
                                   stripePaymentMethodId)
    IN  IF ~res.ok THEN res
        ELSE IF "" \in {phone, hashedPin, stripeCustomerId, stripePaymentMethodId}
             THEN Throw("Invalid argument: non-empty string required")
        ELSE IF table[validatePhoneHash(phoneHash).val].present THEN Ok(table)
        ELSE res

\* INSERT ... ON CONFLICT (phone_hash) DO UPDATE SET every column
insertUser(table, phoneHash, walletInit, pendingActions, isBankLinked, phone, hashedPin, stripeCustomerId, stripePaymentMethodId) ==
    LET h == validatePhoneHash(phoneHash)
        p == validatePhone(phone)
        pin == validateHashedPin(hashedPin)
        cus == validateStripeCustomerId(stripeCustomerId)
        pm == validateStripePaymentMethodId(stripePaymentMethodId)
    IN  IF ~h.ok THEN h
        ELSE IF ~p.ok THEN p
        ELSE IF ~pin.ok THEN pin
        ELSE IF ~cus.ok THEN cus
        ELSE IF ~pm.ok THEN pm
        ELSE Ok([table EXCEPT ![h.val] =
                    [present |-> TRUE,
                     wallet_init |-> validateWalletInit(walletInit) = 1,
                     pending_actions |-> validatePendingActions(pendingActions),
                     is_bank_linked |-> validateBankLinked(isBankLinked) = 1,
                     phone |-> p.val, hashed_pin |-> pin.val,
                     stripe_customer_id |-> cus.val,
                     stripe_payment_method_id |-> pm.val]])

\* an UPDATE that also sets the columns it was not given to their defaults
updateUserResetsOthers(table, phoneHash, updates) ==
    LET h == validatePhoneHash(phoneHash)
        D == DOMAIN updates
    IN  IF ~h.ok THEN h
        ELSE IF "phone" \in D /\ ~validatePhone(updates.phone).ok
             THEN validatePhone(updates.phone)
        ELSE IF D = {} THEN Throw("No updates provided")
        ELSE IF ~table[h.val].present THEN Throw("User not found")
        ELSE Ok([table EXCEPT ![h.val] =
                    [f \in DOMAIN @ |->
                        IF f = "present" THEN TRUE
                        ELSE IF f \in {"wallet_init", "is_bank_linked"}
                             THEN f \in D /\ updates[f]
                        ELSE IF f \in D THEN updates[f]
                        ELSE IF f = "pending_actions" THEN EmptyText
                        ELSE @[f]]])

\* an UPDATE that creates the row it does not find
updateUserUpserts(table, phoneHash, updates) ==
    LET h == validatePhoneHash(phoneHash)
        D == DOMAIN updates
    IN  IF ~h.ok THEN h
        ELSE IF "phone" \in D /\ ~validatePhone(updates.phone).ok
             THEN validatePhone(updates.phone)
        ELSE IF D = {} THEN Throw("No updates provided")
        ELSE Ok([table EXCEPT ![h.val] =
                    [f \in DOMAIN @ |->
                        IF f = "present" THEN TRUE
                        ELSE IF f \notin D THEN @[f]
                        ELSE updates[f]]])

\* UPDATE users SET <the columns named in updates> WHERE phone_hash = $n
updateUser(table, phoneHash, updates) ==
    LET h == validatePhoneHash(phoneHash)
        D == DOMAIN updates
    IN  IF ~h.ok THEN h
        ELSE IF "phone" \in D /\ ~validatePhone(updates.phone).ok
             THEN validatePhone(updates.phone)
        ELSE IF "hashed_pin" \in D /\ ~validateHashedPin(updates.hashed_pin).ok
             THEN validateHashedPin(updates.hashed_pin)
        ELSE IF "stripe_customer_id" \in D
                /\ ~validateStripeCustomerId(updates.stripe_customer_id).ok
             THEN validateStripeCustomerId(updates.stripe_customer_id)
        ELSE IF "stripe_payment_method_id" \in D
                /\ ~validateStripePaymentMethodId(updates.stripe_payment_method_id).ok
             THEN validateStripePaymentMethodId(updates.stripe_payment_method_id)
        ELSE IF D = {} THEN Throw("No updates provided")
        ELSE IF ~table[h.val].present THEN Throw("User not found")
        ELSE Ok([table EXCEPT ![h.val] =
                    [f \in DOMAIN @ |->
                        IF f \notin D THEN @[f]
                        ELSE IF f = "wallet_init"
                             THEN validateWalletInit(updates[f]) = 1
                        ELSE IF f = "is_bank_linked"
                             THEN validateBankLinked(updates[f]) = 1
                        ELSE updates[f]]])

(***************************************************************************)
(* The state.                                                              *)
(***************************************************************************)
VARIABLES
    users,          \* the users table: identity hash -> row
    ledgerUsers,    \* identities whose initializeUser transaction succeeded
    now,            \* Date.now()
    ticks,          \* clock ticks taken
    uuids,          \* crypto.randomUUID() values drawn
    reqs,           \* the inbound /sms requests and their positions
    lastCall        \* the last call made on a function by itself, and its result

vars == <<users, ledgerUsers, now, ticks, uuids, reqs, lastCall>>

NoCall == [op |-> "none"]

ReqIds == 1..MaxReq

NoParsed == [trigger |-> "", amount |-> 0, recipient |-> NoText, memo |-> ""]

\* req.body.Body || '', as the length check sees it
NoBody == [blank |-> TRUE, length |-> 0]

IdleReq ==
    [pc |-> "idle", from |-> NoText, body |-> NoBody, classified |-> FALSE,
     fromHash |-> NoHash, parsed |-> NoParsed,
     solo |-> FALSE,
     senderInit |-> FALSE, senderBank |-> FALSE,
     pending |-> NoObj, actionID |-> <<>>, party |-> "",
     retries |-> 0, delayMs |-> 0,
     replies |-> <<>>, provisions |-> <<>>, settlements |-> <<>>,
     notifications |-> <<>>,
     attempts |-> 0, delays |-> <<>>, background |-> ""]

(***************************************************************************)
(* Inputs.  parseIntent returns the recipient it extracted from the body  *)
(* itself: a normalized phone, a name, or the empty string.               *)
(***************************************************************************)
E164A == normalizePhoneToE164(PhoneA).val

E164B == normalizePhoneToE164(PhoneB).val

NameJohn == <<"J", "o", "h", "n">>

Recipients == {E164A, E164B, NameJohn, NoText}

\* one number, written in the ways a phone number is written
FormatsOfA ==
    {PhoneA, E164A,
     <<"(", "4", "1", "5", ")", " ", "5", "5", "5", "-", "0", "0", "0", "1">>,
     <<"1", "-", "4", "1", "5", "-", "5", "5", "5", "-", "0", "0", "0", "1">>,
     <<" ", "+", "1", " ", "4", "1", "5", " ", "5", "5", "5", " ", "0", "0", "0", "1", " ">>}

Amounts == {-5, 0, 10, 25}

Triggers == {"direct", "confirmation", "cancel", "onboard", ""}

\* what the classifier makes of a body; the memo plays no part in any branch
ParsedInputs ==
    {[trigger |-> "direct", amount |-> a, recipient |-> rc, memo |-> "lunch"] :
        a \in Amounts, rc \in {E164A, E164B}}
    \cup {[trigger |-> "direct", amount |-> a, recipient |-> rc, memo |-> ""] :
        a \in {0, 10}, rc \in {NameJohn, NoText}}
    \cup {[trigger |-> t, amount |-> 0, recipient |-> NoText, memo |-> ""] :
        t \in Triggers \ {"direct"}}

\* await parseIntent(body): the classifier call fails, or returns an intent
ParseOutcomes == {Throw("Failed to get response from Open AI")} \cup {Ok(p) : p \in ParsedInputs}

\* a message body as the length check sees it
Bodies == {NoBody,
           [blank |-> TRUE, length |-> 1],
           [blank |-> FALSE, length |-> MAX_BODY_LENGTH],
           [blank |-> FALSE, length |-> MAX_BODY_LENGTH + 1]}

(***************************************************************************)
(* Init: the server has started (initDbSchema is CREATE TABLE IF NOT      *)
(* EXISTS) on a users table that outlives the process.  Its rows were     *)
(* written with all eight columns, as db.test.ts writes them; a pending   *)
(* transfer is the JSON handleDirectIntent builds, and its recipient has  *)
(* a row.                                                                  *)
(***************************************************************************)
StoredPending(amount, memo, expires) ==
    JsonStringify([actionId |-> <<"uuid", 0>>, amount |-> amount, recipientHash |-> HashB,
                   memo |-> memo, expires |-> expires,
                   senderPhone |-> PhoneA, recipientPhone |-> E164B])

StoredRow(walletInit, pendingActions, phone) ==
    [present |-> TRUE, wallet_init |-> walletInit, pending_actions |-> pendingActions,
     is_bank_linked |-> FALSE, phone |-> phone, hashed_pin |-> "pin",
     stripe_customer_id |-> "cus", stripe_payment_method_id |-> "pm"]

InitPendings ==
    {SqlNull, EmptyText, MalformedText}
    \cup {StoredPending(10, "lunch", e) : e \in {Now0 - 1, Now0, Now0 + MaxTicks + 1}}

InitRowsA ==
    {NoRow} \cup {StoredRow(w, pa, "+14155550001") : w \in BOOLEAN, pa \in InitPendings}

InitRowsB ==
    {NoRow} \cup {StoredRow(w, EmptyText, "+14155551234") : w \in BOOLEAN}

Init ==
    /\ users \in [Hashes -> InitRowsA \cup InitRowsB]
    /\ users[HashA] \in InitRowsA
    /\ users[HashB] \in InitRowsB
    /\ users[HashA].pending_actions.kind = "json" => users[HashB].present
    /\ ledgerUsers = {h \in Hashes : users[h].wallet_init}
    /\ now = Now0
    /\ ticks = 0
    /\ uuids = 0
    /\ reqs = [r \in ReqIds |-> IdleReq]
    /\ lastCall = NoCall

(***************************************************************************)
(* Helpers of the handlers.                                                *)
(***************************************************************************)
\* sendSmsRes: res.status(200).send(...), one more write on the response
sendSmsRes(q, msg) == [q EXCEPT !.replies = Append(@, msg)]

\* res.status(n).json(...) of handleOnboardIntent
sendJson(q, msg) == [q EXCEPT !.replies = Append(@, msg)]

\* the handler has returned: its locals are gone, what it did remains
Done(q) ==
    [q EXCEPT !.pc = "done", !.senderInit = FALSE, !.senderBank = FALSE,
              !.pending = NoObj, !.actionID = <<>>, !.party = "",
              !.retries = 0, !.delayMs = 0]

\* the catch of app.post('/sms'): whatever the handler threw
CatchSms(q) == Done(sendSmsRes(q, "Error parsing intent"))

At(r, pc) == reqs[r].pc = pc

Set(r, q) == reqs' = [reqs EXCEPT ![r] = q]

(***************************************************************************)
(* app.post('/sms') up to the first read of the users table: sender hash, *)
(* body validation, await parseIntent, dispatch on the trigger and, for a *)
(* direct intent, the checks of handleDirectIntent.  None of it reads or  *)
(* writes shared state.  Messages are numbered in the order they arrive.  *)
(***************************************************************************)
\* a validation without body.trim() === ''
BodyValidLengthOnly(body) == body.length <= MAX_BODY_LENGTH

BodyValid(body) == ~body.blank /\ body.length <= MAX_BODY_LENGTH

\* the checks with if (parsed.amount < 0)
DirectRejectionNegativeOnly(fromHash, parsed) ==
    IF Trim(parsed.recipient) = <<>> THEN "Recipient missing"
    ELSE IF ~hashPhone(parsed.recipient).ok THEN "Invalid recipient"
    ELSE IF fromHash = hashPhone(parsed.recipient).val THEN "Self-send not allowed"
    ELSE IF parsed.amount < 0 THEN "Invalid amount"
    ELSE "none"

\* the checks without if (fromHash === recipientHash)
DirectRejectionNoSelfCheck(fromHash, parsed) ==
    IF Trim(parsed.recipient) = <<>> THEN "Recipient missing"
    ELSE IF ~hashPhone(parsed.recipient).ok THEN "Invalid recipient"
    ELSE IF parsed.amount <= 0 THEN "Invalid amount"
    ELSE "none"

\* the checks of handleDirectIntent before its first await, in code order
DirectRejection(fromHash, parsed) ==
    IF Trim(parsed.recipient) = <<>> THEN "Recipient missing"
    ELSE IF ~hashPhone(parsed.recipient).ok THEN "Invalid recipient"
    ELSE IF fromHash = hashPhone(parsed.recipient).val THEN "Self-send not allowed"
    ELSE IF parsed.amount <= 0 THEN "Invalid amount"
    ELSE "none"

\* a dispatch whose last branch is the cancel handler
DispatchDefaultsToCancel(q, parsed) ==
    LET q0 == [q EXCEPT !.parsed = parsed] IN
    IF parsed.trigger = "direct"
    THEN IF DirectRejection(q.fromHash, parsed) # "none"
         THEN Done(sendSmsRes(q0, DirectRejection(q.fromHash, parsed)))
         ELSE [q0 EXCEPT !.pc = "direct_sender"]
    ELSE IF parsed.trigger = "confirmation" THEN [q0 EXCEPT !.pc = "confirm"]
    ELSE IF parsed.trigger = "onboard" THEN [q0 EXCEPT !.pc = "onboard"]
    ELSE [q0 EXCEPT !.pc = "cancel"]

Dispatch(q, parsed) ==
    LET q0 == [q EXCEPT !.parsed = parsed] IN
    IF parsed.trigger = "direct"
    THEN IF DirectRejection(q.fromHash, parsed) # "none"
         THEN Done(sendSmsRes(q0, DirectRejection(q.fromHash, parsed)))
         ELSE [q0 EXCEPT !.pc = "direct_sender"]
    ELSE IF parsed.trigger = "confirmation" THEN [q0 EXCEPT !.pc = "confirm"]
    ELSE IF parsed.trigger = "cancel" THEN [q0 EXCEPT !.pc = "cancel"]
    ELSE IF parsed.trigger = "onboard" THEN [q0 EXCEPT !.pc = "onboard"]
    ELSE Done(sendSmsRes(q0, "Invalid intent"))

Arrive(r, from, body) ==
    [reqs[r] EXCEPT !.from = from, !.body = body,
                    !.solo = \A q \in ReqIds : q < r => At(q, "done")]

\* a message turned away before the classifier is called
Reject(r, from, body) ==
    /\ At(r, "idle")
    /\ \A q \in ReqIds : q < r => ~At(q, "idle")
    /\ LET fromHash == hashPhone(from) IN
       IF ~fromHash.ok
       THEN Set(r, Done(sendSmsRes(Arrive(r, from, body), "Invalid sender phone number")))
       ELSE /\ ~BodyValid(body)
            /\ Set(r, Done(sendSmsRes([Arrive(r, from, body) EXCEPT !.fromHash = fromHash.val],
                                      "Invalid message")))
    /\ UNCHANGED <<users, ledgerUsers, now, ticks, uuids, lastCall>>

\* a message whose sender hashes and whose body passes the length check
Receive(r, from, body, parseResult) ==
    /\ At(r, "idle")
    /\ \A q \in ReqIds : q < r => ~At(q, "idle")
    /\ hashPhone(from).ok
    /\ BodyValid(body)
    /\ LET q1 == [Arrive(r, from, body) EXCEPT !.fromHash = hashPhone(from).val,
                                              !.classified = TRUE] IN
       IF ~parseResult.ok THEN Set(r, CatchSms(q1))
       ELSE Set(r, Dispatch(q1, parseResult.val))
    /\ UNCHANGED <<users, ledgerUsers, now, ticks, uuids, lastCall>>

\* time passes
Tick ==
    /\ ticks < MaxTicks
    /\ now' = now + 1
    /\ ticks' = ticks + 1
    /\ UNCHANGED <<users, ledgerUsers, uuids, reqs, lastCall>>

(***************************************************************************)
(* handleCancelIntent.                                                     *)
(***************************************************************************)
CancelLoad(r) ==
    /\ At(r, "cancel")
    /\ LET user == getUser(users, reqs[r].fromHash).val IN
       IF user.found /\ TextTruthy(user.pending_actions)
       THEN Set(r, [reqs[r] EXCEPT !.pc = "cancel_clear"])
       ELSE Set(r, Done(sendSmsRes(reqs[r], "No pending transfer to cancel")))
    /\ UNCHANGED <<users, ledgerUsers, now, ticks, uuids, lastCall>>

\* a cancel that answers without the updateUser
CancelClearKeepsPending(r) ==
    /\ At(r, "cancel_clear")
    /\ Set(r, Done(sendSmsRes(reqs[r], "Transaction cancelled")))
    /\ UNCHANGED <<users, ledgerUsers, now, ticks, uuids, lastCall>>

CancelClear(r) ==
    /\ At(r, "cancel_clear")
    /\ LET res == updateUser(users, reqs[r].fromHash, [pending_actions |-> SqlNull]) IN
       IF res.ok
       THEN /\ users' = res.val
            /\ Set(r, Done(sendSmsRes(reqs[r], "Transaction cancelled")))
       ELSE /\ users' = users
            /\ Set(r, CatchSms(reqs[r]))
    /\ UNCHANGED <<ledgerUsers, now, ticks, uuids, lastCall>>

(***************************************************************************)
(* handleDirectIntent.                                                     *)
(***************************************************************************)
\* crypto.randomUUID()
randomUUID(n) == <<"uuid", n>>

\* const sender = await getUser(fromHash), then the arguments of insertUser
DirectGetSender(r) ==
    /\ At(r, "direct_sender")
    /\ LET q == reqs[r]
           sender == getUser(users, q.fromHash).val
           senderInit == sender.found /\ StrictEq(sender.wallet_init, JsNum(1))
       IN  Set(r, [q EXCEPT
                !.pc = "direct_store",
                !.senderInit = senderInit,
                !.senderBank = sender.found /\ Truthy(sender.is_bank_linked),
                !.pending = [actionId |-> randomUUID(uuids + 1),
                             amount |-> q.parsed.amount,
                             recipientHash |-> hashPhone(q.parsed.recipient).val,
                             memo |-> q.parsed.memo,
                             expires |-> now + EXPIRES_MS,
                             senderPhone |-> q.from,
                             recipientPhone |-> q.parsed.recipient]])
    /\ uuids' = uuids + 1
    /\ UNCHANGED <<users, ledgerUsers, now, ticks, lastCall>>

\* await insertUser(fromHash, senderInit, JSON.stringify({...}), bankLinked):
\* phone, hashedPin and the Stripe ids take their default, the empty string.
\* A rejected insertUser leaves the handler through the catch of /sms; the
\* code after a fulfilled one (recipient row, prompt, background retry) is
\* entered at "direct_recipient".
DirectStore(r) ==
    /\ At(r, "direct_store")
    /\ LET q == reqs[r]
           res == insertUser(users, q.fromHash, q.senderInit, JsonStringify(q.pending),
                             q.senderBank, "", "", "", "")
       IN  IF res.ok
           THEN /\ users' = res.val
                /\ Set(r, [q EXCEPT !.pc = "direct_recipient"])
           ELSE /\ users' = users
                /\ Set(r, CatchSms(q))
    /\ UNCHANGED <<ledgerUsers, now, ticks, uuids, lastCall>>

(***************************************************************************)
(* initUserIfNeeded (intent_gateway.ts), run for the sender and then for  *)
(* the recipient of a confirmation.                                        *)
(***************************************************************************)
PartyHash(q) ==
    IF q.party \in {"sender", "background"} THEN q.fromHash ELSE q.pending.recipientHash

\* retry: if (retries <= 0) throw
retryCatchOneMore(q) ==
    IF q.retries <= 0 THEN Done([q EXCEPT !.background = "abandoned"])
    ELSE [q EXCEPT !.pc = "retry_wait"]

\* the catch of retry: if (retries <= 1) throw new Error(`Retry failed: ...`),
\* which the .catch of handleDirectIntent logs; else the timer is set
retryCatch(q) ==
    IF q.retries <= 1 THEN Done([q EXCEPT !.background = "abandoned"])
    ELSE [q EXCEPT !.pc = "retry_wait"]

\* initUserIfNeeded returns to its caller: handleConfirmationIntent, or retry
AfterInit(q) ==
    IF q.party = "sender" THEN [q EXCEPT !.pc = "confirm_recipient"]
    ELSE IF q.party = "background" THEN Done([q EXCEPT !.background = "returned"])
    ELSE [q EXCEPT !.pc = "confirm_settle"]

\* a caller that goes on when initUserIfNeeded throws
InitThrowsIgnored(q) == AfterInit(q)

\* initUserIfNeeded throws to its caller: the catch of /sms, or the catch of retry
InitThrows(q) == IF q.party = "background" THEN retryCatch(q) ELSE CatchSms(q)

\* if (!user || user.wallet_init !== 1)
NeedsInit(user) == ~user.found \/ ~StrictEq(user.wallet_init, JsNum(1))

InitGetUser(r) ==
    /\ At(r, "init_get")
    /\ LET user == getUser(users, PartyHash(reqs[r])) IN
       IF ~user.ok THEN Set(r, InitThrows(reqs[r]))
       ELSE IF NeedsInit(user.val) THEN Set(r, [reqs[r] EXCEPT !.pc = "init_ledger"])
       ELSE Set(r, AfterInit(reqs[r]))
    /\ UNCHANGED <<users, ledgerUsers, now, ticks, uuids, lastCall>>

\* an initUserIfNeeded that goes on to its updateUser when the ledger refused
InitLedgerUpdatesAnyway(r, confirmed) ==
    /\ At(r, "init_ledger")
    /\ LET q == [reqs[r] EXCEPT !.provisions =
                    Append(@, [hash |-> PartyHash(reqs[r]), ok |-> confirmed,
                               fresh |-> PartyHash(reqs[r]) \notin ledgerUsers])]
       IN  /\ ledgerUsers' = IF confirmed THEN ledgerUsers \cup {PartyHash(reqs[r])}
                             ELSE ledgerUsers
           /\ Set(r, [q EXCEPT !.pc = "init_update"])
    /\ UNCHANGED <<users, now, ticks, uuids, lastCall>>

\* sendAndConfirmTransaction of the initializeUser instruction
InitLedger(r, confirmed) ==
    /\ At(r, "init_ledger")
    /\ LET q == [reqs[r] EXCEPT !.provisions =
                    Append(@, [hash |-> PartyHash(reqs[r]), ok |-> confirmed,
                               fresh |-> PartyHash(reqs[r]) \notin ledgerUsers])]
       IN  IF confirmed
           THEN /\ ledgerUsers' = ledgerUsers \cup {PartyHash(reqs[r])}
                /\ Set(r, [q EXCEPT !.pc = "init_update"])
           ELSE /\ ledgerUsers' = ledgerUsers
                /\ Set(r, InitThrows(q))
    /\ UNCHANGED <<users, now, ticks, uuids, lastCall>>

\* await updateUser(userHash, { wallet_init: true })
InitUpdate(r) ==
    /\ At(r, "init_update")
    /\ LET res == updateUser(users, PartyHash(reqs[r]), [wallet_init |-> TRUE]) IN
       IF res.ok
       THEN /\ users' = res.val
            /\ Set(r, AfterInit(reqs[r]))
       ELSE /\ users' = users
            /\ Set(r, InitThrows(reqs[r]))
    /\ UNCHANGED <<ledgerUsers, now, ticks, uuids, lastCall>>

\* retry: the timer of delayMs fires, then retry(fn, retries - 1, delayMs * 2)
\* calls fn again
RetryWait(r) ==
    /\ At(r, "retry_wait")
    /\ Set(r, [reqs[r] EXCEPT !.pc = "init_get",
                              !.delays = Append(@, reqs[r].delayMs),
                              !.retries = @ - 1,
                              !.delayMs = @ * 2,
                              !.attempts = @ + 1])
    /\ UNCHANGED <<users, ledgerUsers, now, ticks, uuids, lastCall>>

(***************************************************************************)
(* handleConfirmationIntent.                                               *)
(***************************************************************************)
\* if (Date.now() >= expires)
ExpiredAtDeadline(t, expires) == t >= expires

\* if (Date.now() > expires)
Expired(t, expires) == t > expires

\* const { actionID, ... } = pending: the stored key is actionId
ReadActionID(pending) ==
    IF "actionID" \in DOMAIN pending THEN pending.actionID ELSE <<"undefined">>

ConfirmLoad(r) ==
    /\ At(r, "confirm")
    /\ LET q == reqs[r]
           user == getUser(users, q.fromHash).val
       IN  IF ~(user.found /\ TextTruthy(user.pending_actions))
           THEN Set(r, Done(sendSmsRes(q, "No pending transfer")))
           ELSE LET parsedPending == JsonParse(user.pending_actions) IN
                IF ~parsedPending.ok
                THEN Set(r, [q EXCEPT !.pc = "confirm_invalid"])
                ELSE LET q1 == [q EXCEPT !.pending = parsedPending.val,
                                         !.actionID = ReadActionID(parsedPending.val)]
                     IN  IF Expired(now, parsedPending.val.expires)
                         THEN Set(r, [q1 EXCEPT !.pc = "confirm_expired"])
                         ELSE Set(r, [q1 EXCEPT !.pc = "confirm_sender"])
    /\ UNCHANGED <<users, ledgerUsers, now, ticks, uuids, lastCall>>

\* await updateUser(fromHash, { pending_actions: null }), then the reply
ClearAndReply(r, msg) ==
    LET res == updateUser(users, reqs[r].fromHash, [pending_actions |-> SqlNull]) IN
    IF res.ok
    THEN /\ users' = res.val
         /\ Set(r, Done(sendSmsRes(reqs[r], msg)))
    ELSE /\ users' = users
         /\ Set(r, CatchSms(reqs[r]))

ConfirmClearInvalid(r) ==
    /\ At(r, "confirm_invalid")
    /\ ClearAndReply(r, "Invalid pending transfer")
    /\ UNCHANGED <<ledgerUsers, now, ticks, uuids, lastCall>>

ConfirmClearExpired(r) ==
    /\ At(r, "confirm_expired")
    /\ ClearAndReply(r, "Transfer expired")
    /\ UNCHANGED <<ledgerUsers, now, ticks, uuids, lastCall>>

\* a confirm that goes to the recipient without looking at the sender
ConfirmGetSenderSkipsInit(r) ==
    /\ At(r, "confirm_sender")
    /\ Set(r, [reqs[r] EXCEPT !.pc = "confirm_recipient"])
    /\ UNCHANGED <<users, ledgerUsers, now, ticks, uuids, lastCall>>

ConfirmGetSender(r) ==
    /\ At(r, "confirm_sender")
    /\ LET sender == getUser(users, reqs[r].fromHash).val IN
       IF NeedsInit(sender)
       THEN Set(r, [reqs[r] EXCEPT !.party = "sender", !.pc = "init_get"])
       ELSE Set(r, [reqs[r] EXCEPT !.pc = "confirm_recipient"])
    /\ UNCHANGED <<users, ledgerUsers, now, ticks, uuids, lastCall>>

ConfirmGetRecipient(r) ==
    /\ At(r, "confirm_recipient")
    /\ LET recipient == getUser(users, reqs[r].pending.recipientHash) IN
       IF ~recipient.ok THEN Set(r, CatchSms(reqs[r]))
       ELSE IF NeedsInit(recipient.val)
       THEN Set(r, [reqs[r] EXCEPT !.party = "recipient", !.pc = "init_get"])
       ELSE Set(r, [reqs[r] EXCEPT !.pc = "confirm_settle"])
    /\ UNCHANGED <<users, ledgerUsers, now, ticks, uuids, lastCall>>

\* what sendAndConfirmTransaction of the p2PTransfer instruction can do
SettleOutcomes == {"confirmed", "not_sent", "rejected", "timeout"}

\* executeP2pTransfer takes seven parameters: the memo passed eighth is dropped
executeP2pTransfer(fromHash, toHash, amount, memo, outcome) ==
    [from |-> fromHash, to |-> toHash, amount |-> amount, outcome |-> outcome]

\* a confirm that gives the pending transfer up when the transfer fails
ConfirmSettleClearsOnFailure(r, outcome) ==
    /\ At(r, "confirm_settle")
    /\ LET q == reqs[r]
           call == executeP2pTransfer(q.fromHash, q.pending.recipientHash,
                                      q.pending.amount, q.pending.memo, outcome)
           q1 == [q EXCEPT !.settlements =
                    Append(@, [call |-> call, pendingId |-> q.pending.actionId,
                               logged |-> IF outcome = "confirmed" THEN q.actionID
                                          ELSE <<>>])]
       IN  IF outcome = "confirmed"
           THEN /\ users' = users
                /\ Set(r, [sendSmsRes(q1, "Sent") EXCEPT !.pc = "confirm_notify"])
           ELSE /\ users' = updateUser(users, q.fromHash, [pending_actions |-> SqlNull]).val
                /\ Set(r, CatchSms(q1))
    /\ UNCHANGED <<ledgerUsers, now, ticks, uuids, lastCall>>

\* a confirm that goes on to the recipient's notification whatever
\* executeP2pTransfer did
ConfirmSettleNotifiesAnyway(r, outcome) ==
    /\ At(r, "confirm_settle")
    /\ LET q == reqs[r]
           call == executeP2pTransfer(q.fromHash, q.pending.recipientHash,
                                      q.pending.amount, q.pending.memo, outcome)
           q1 == [q EXCEPT !.settlements =
                    Append(@, [call |-> call, pendingId |-> q.pending.actionId,
                               logged |-> IF outcome = "confirmed" THEN q.actionID
                                          ELSE <<>>])]
       IN  Set(r, [sendSmsRes(q1, "Sent") EXCEPT !.pc = "confirm_notify"])
    /\ UNCHANGED <<users, ledgerUsers, now, ticks, uuids, lastCall>>

ConfirmSettle(r, outcome) ==
    /\ At(r, "confirm_settle")
    /\ LET q == reqs[r]
           call == executeP2pTransfer(q.fromHash, q.pending.recipientHash,
                                      q.pending.amount, q.pending.memo, outcome)
           q1 == [q EXCEPT !.settlements =
                    Append(@, [call |-> call, pendingId |-> q.pending.actionId,
                               logged |-> IF outcome = "confirmed" THEN q.actionID
                                          ELSE <<>>])]
       IN  IF outcome = "confirmed"
           THEN Set(r, [sendSmsRes(q1, "Sent") EXCEPT !.pc = "confirm_notify"])
           ELSE Set(r, CatchSms(q1))
    /\ UNCHANGED <<users, ledgerUsers, now, ticks, uuids, lastCall>>

\* await client.messages.create({ ..., to: recipientPhone })
ConfirmNotify(r, delivered) ==
    /\ At(r, "confirm_notify")
    /\ IF delivered
       THEN Set(r, [reqs[r] EXCEPT !.pc = "confirm_clear",
                        !.notifications = Append(@, reqs[r].pending.recipientPhone)])
       ELSE Set(r, CatchSms(reqs[r]))
    /\ UNCHANGED <<users, ledgerUsers, now, ticks, uuids, lastCall>>

\* await updateUser(fromHash, { pending_actions: null })
ConfirmClear(r) ==
    /\ At(r, "confirm_clear")
    /\ LET res == updateUser(users, reqs[r].fromHash, [pending_actions |-> SqlNull]) IN
       IF res.ok
       THEN /\ users' = res.val
            /\ Set(r, Done(reqs[r]))
       ELSE /\ users' = users
            /\ Set(r, CatchSms(reqs[r]))
    /\ UNCHANGED <<ledgerUsers, now, ticks, uuids, lastCall>>

(***************************************************************************)
(* handleOnboardIntent: its own try/catch answers with a JSON body.       *)
(***************************************************************************)
OnboardLoad(r) ==
    /\ At(r, "onboard")
    /\ LET user == getUser(users, reqs[r].fromHash).val IN
       IF ~user.found THEN Set(r, [reqs[r] EXCEPT !.pc = "onboard_insert"])
       ELSE IF Truthy(user.is_bank_linked)
       THEN Set(r, Done(sendJson(reqs[r], "Already onboarded")))
       ELSE Set(r, [reqs[r] EXCEPT !.pc = "onboard_sms"])
    /\ UNCHANGED <<users, ledgerUsers, now, ticks, uuids, lastCall>>

\* await insertUser(fromHash, false, '', false); a fulfilled call goes on to
\* read the row back at "onboard_reload"
OnboardInsert(r) ==
    /\ At(r, "onboard_insert")
    /\ LET res == insertUser(users, reqs[r].fromHash, FALSE, EmptyText, FALSE,
                             "", "", "", "")
       IN  IF res.ok
           THEN /\ users' = res.val
                /\ Set(r, [reqs[r] EXCEPT !.pc = "onboard_reload"])
           ELSE /\ users' = users
                /\ Set(r, Done(sendJson(reqs[r], "Onboarding failed")))
    /\ UNCHANGED <<ledgerUsers, now, ticks, uuids, lastCall>>

OnboardSms(r, delivered) ==
    /\ At(r, "onboard_sms")
    /\ IF delivered
       THEN Set(r, Done(sendJson(reqs[r], "Sms sent to link your bank")))
       ELSE Set(r, Done(sendJson(reqs[r], "Onboarding failed")))
    /\ UNCHANGED <<users, ledgerUsers, now, ticks, uuids, lastCall>>

(***************************************************************************)
(* The specification.                                                      *)
(***************************************************************************)
\* the message that arrives next: the first that has not arrived yet
NextToArrive == {r \in ReqIds : At(r, "idle") /\ \A q \in ReqIds : q < r => ~At(q, "idle")}

Next ==
    \/ \E r \in NextToArrive, from \in Senders, body \in Bodies : Reject(r, from, body)
    \/ \E r \in NextToArrive, from \in Senders, body \in Bodies, parseResult \in ParseOutcomes :
            Receive(r, from, body, parseResult)
    \/ Tick
    \/ \E r \in ReqIds : DirectGetSender(r)
    \/ \E r \in ReqIds : DirectStore(r)
    \/ \E r \in ReqIds : ConfirmLoad(r)
    \/ \E r \in ReqIds : ConfirmClearInvalid(r)
    \/ \E r \in ReqIds : ConfirmClearExpired(r)
    \/ \E r \in ReqIds : ConfirmGetSender(r)
    \/ \E r \in ReqIds : ConfirmGetRecipient(r)
    \/ \E r \in ReqIds : InitGetUser(r)
    \/ \E r \in ReqIds, confirmed \in BOOLEAN : InitLedger(r, confirmed)
    \/ \E r \in ReqIds : InitUpdate(r)
    \/ \E r \in ReqIds, outcome \in SettleOutcomes : ConfirmSettle(r, outcome)
    \/ \E r \in ReqIds, delivered \in BOOLEAN : ConfirmNotify(r, delivered)
    \/ \E r \in ReqIds : ConfirmClear(r)
    \/ \E r \in ReqIds : CancelLoad(r)
    \/ \E r \in ReqIds : CancelClear(r)
    \/ \E r \in ReqIds : OnboardLoad(r)
    \/ \E r \in ReqIds : OnboardInsert(r)
    \/ \E r \in ReqIds, delivered \in BOOLEAN : OnboardSms(r, delivered)

Spec == Init /\ [][Next]_vars

(***************************************************************************)
(* retry, as handleDirectIntent calls it after the prompt:                *)
(* retry(() => initUserIfNeeded(fromHash, ...)) with the default          *)
(* retries = 3 and delayMs = 1000, not awaited.  SpecRetry applies it to  *)
(* every users table of Init, while one more message may arrive.          *)
(***************************************************************************)
BackgroundReq ==
    [IdleReq EXCEPT
        !.pc = "init_get", !.from = PhoneA, !.fromHash = HashA,
        !.body = [blank |-> FALSE, length |-> MAX_BODY_LENGTH], !.classified = TRUE,
        !.parsed = [trigger |-> "direct", amount |-> 10, recipient |-> E164B,
                    memo |-> "lunch"],
        !.solo = TRUE, !.party = "background",
        !.retries = 3, !.delayMs = 1000,
        !.replies = <<"Confirm: yes or no">>,
        !.attempts = 1, !.background = "started"]

InitRetry ==
    /\ users \in [Hashes -> InitRowsA \cup InitRowsB]
    /\ users[HashA] \in InitRowsA
    /\ users[HashB] \in InitRowsB
    /\ users[HashA].pending_actions.kind = "json" => users[HashB].present
    /\ ledgerUsers = {h \in Hashes : users[h].wallet_init}
    /\ now = Now0
    /\ ticks = 0
    /\ uuids = 0
    /\ reqs = [r \in ReqIds |-> IF r = 1 THEN BackgroundReq ELSE IdleReq]
    /\ lastCall = NoCall

NextRetry ==
    \/ Next
    \/ \E r \in ReqIds : RetryWait(r)

SpecRetry == InitRetry /\ [][NextRetry]_vars

(***************************************************************************)
(* getUser, insertUser, updateUser and hashPhone called by themselves, as *)
(* db.test.ts and utils.test.ts call them: SpecUnit starts on an empty    *)
(* users table (DELETE FROM users) and makes one call after another.      *)
(***************************************************************************)
UpperOf(c) ==
    CASE c = "a" -> "A" [] c = "b" -> "B" [] c = "c" -> "C" [] c = "d" -> "D"
      [] c = "e" -> "E" [] c = "f" -> "F" [] c = "g" -> "G" [] OTHER -> c

\* String.prototype.toUpperCase
toUpperCase(s) ==
    Str([i \in 1..Len(s.head) |-> UpperOf(s.head[i])], UpperOf(s.fill), s.n)

\* 'g'.repeat(64)
NonHexHash == Str(<<>>, "g", HASH_HEX_LENGTH)

\* the values of phone_hash a table can hold a row for
UnitKeys == {HashA, HashB, NonHexHash}

\* the phoneHash arguments: stored forms, an upper-case form, '', 'short', a
\* non-hex character, and one character too few
UnitHashes ==
    {HashA, HashB, toUpperCase(HashA),
     NoHash, Str(<<"s", "h", "o", "r", "t">>, "", 0), NonHexHash,
     Str(HashA.head, HashA.fill, HashA.n - 1)}

UnitPending == StoredPending(10, "lunch", Now0)

\* the argument lists of insertUser: every column given, a second list that
\* differs in every column, and the four-argument call
UnitInserts ==
    {[wallet_init |-> FALSE, pending_actions |-> EmptyText, is_bank_linked |-> FALSE,
      phone |-> "+12025550123", hashed_pin |-> "hashed_pin_123",
      stripe_customer_id |-> "cus_123456789",
      stripe_payment_method_id |-> "pm_123456789"],
     [wallet_init |-> TRUE, pending_actions |-> UnitPending, is_bank_linked |-> TRUE,
      phone |-> "1234567890", hashed_pin |-> "new_hashed_pin",
      stripe_customer_id |-> "new_cus_123",
      stripe_payment_method_id |-> "new_pm_123"],
     [wallet_init |-> FALSE, pending_actions |-> EmptyText, is_bank_linked |-> FALSE,
      phone |-> "", hashed_pin |-> "", stripe_customer_id |-> "",
      stripe_payment_method_id |-> ""]}

UnitUpdates ==
    {[wallet_init |-> TRUE],
     [pending_actions |-> SqlNull],
     [wallet_init |-> TRUE, pending_actions |-> SqlNull],
     [phone |-> ""],
     [f \in {} |-> TRUE]}

UnitPhones ==
    FormatsOfA
    \cup {PhoneB, E164B, NoText, <<" ">>, <<"a", "b", "c">>,
          <<"2", "3", "1", "a", "b", "c", "1", "2", "3">>,
          <<"0", "1", "2", "3", "4", "5", "6", "7", "8", "9", "0">>,
          <<"0", "2", "1", "1", "2", "3", "4", "5", "6", "7", "8", "9", "0">>}

UnitGetUser(phoneHash) ==
    /\ lastCall' = [op |-> "getUser", phoneHash |-> phoneHash,
                    result |-> getUser(users, phoneHash)]
    /\ UNCHANGED <<users, ledgerUsers, now, ticks, uuids, reqs>>

UnitInsertUser(phoneHash, args) ==
    LET res == insertUser(users, phoneHash, args.wallet_init, args.pending_actions,
                          args.is_bank_linked, args.phone, args.hashed_pin,
                          args.stripe_customer_id, args.stripe_payment_method_id)
    IN  /\ users' = IF res.ok THEN res.val ELSE users
        /\ lastCall' = [op |-> "insertUser", phoneHash |-> phoneHash, args |-> args,
                        existed |-> res.ok /\ users[validatePhoneHash(phoneHash).val].present,
                        result |-> IF res.ok THEN Ok("User info saved") ELSE res]
        /\ UNCHANGED <<ledgerUsers, now, ticks, uuids, reqs>>

UnitUpdateUser(phoneHash, updates) ==
    LET res == updateUser(users, phoneHash, updates) IN
    /\ users' = IF res.ok THEN res.val ELSE users
    /\ lastCall' = [op |-> "updateUser", phoneHash |-> phoneHash, updates |-> updates,
                    result |-> IF res.ok THEN Ok("Updated") ELSE res]
    /\ UNCHANGED <<ledgerUsers, now, ticks, uuids, reqs>>

UnitHashPhone(phone) ==
    /\ lastCall' = [op |-> "hashPhone", phone |-> phone, result |-> hashPhone(phone)]
    /\ UNCHANGED <<users, ledgerUsers, now, ticks, uuids, reqs>>

InitUnit ==
    /\ users = [k \in UnitKeys |-> NoRow]
    /\ ledgerUsers = {}
    /\ now = Now0
    /\ ticks = 0
    /\ uuids = 0
    /\ reqs = [r \in ReqIds |-> IdleReq]
    /\ lastCall = NoCall

NextUnit ==
    \/ \E phoneHash \in UnitHashes : UnitGetUser(phoneHash)
    \/ \E phoneHash \in UnitHashes, args \in UnitInserts :
            UnitInsertUser(phoneHash, args)
    \/ \E phoneHash \in UnitHashes, updates \in UnitUpdates :
            UnitUpdateUser(phoneHash, updates)
    \/ \E phone \in UnitPhones : UnitHashPhone(phone)

SpecUnit == InitUnit /\ [][NextUnit]_vars

(***************************************************************************)
(* parser.ts: parseIntent.  The recipient is taken from the body by the   *)
(* two regular expressions of the source, matched as a backtracking       *)
(* matcher matches them; what the classifier answers is any of            *)
(* ClassifierResponses.                                                    *)
(***************************************************************************)
LowerLetters == <<"a", "b", "c", "d", "e", "f", "g", "h", "i", "j", "k", "l", "m", "n", "o", "p", "q", "r", "s", "t", "u", "v", "w", "x", "y", "z">>

UpperLetters == <<"A", "B", "C", "D", "E", "F", "G", "H", "I", "J", "K", "L", "M", "N", "O", "P", "Q", "R", "S", "T", "U", "V", "W", "X", "Y", "Z">>

Letters == {LowerLetters[i] : i \in 1..Len(LowerLetters)} \cup {UpperLetters[i] : i \in 1..Len(UpperLetters)}

LowerChar(c) ==
    IF \E i \in 1..Len(UpperLetters) : UpperLetters[i] = c
    THEN LowerLetters[CHOOSE i \in 1..Len(UpperLetters) : UpperLetters[i] = c]
    ELSE c

LowerText(text) == [i \in 1..Len(text) |-> LowerChar(text[i])]

\* the character at i, or "" past either end
CharAt(text, i) == IF i \in 1..Len(text) THEN text[i] ELSE ""

\* [\s.-]
SepChars == {" ", ".", "-"}

\* \s
WhiteChars == {" "}

\* X? : the position after an optional character of class X
SkipIf(text, i, class) == IF CharAt(text, i) \in class THEN i + 1 ELSE i

\* \d{n} at i
DigitsAt(text, i, n) == \A k \in 0..(n - 1) : CharAt(text, i + k) \in DigitChars

\* \(?\d{3}\)?[\s.-]?\d{3}[\s.-]?\d{4} at i: the position after the match,
\* or 0.  An optional character is never a character the next item accepts,
\* so taking it when it is there is the only way to match.
PhoneRestEnd(text, i) ==
    LET p1 == SkipIf(text, i, {"("})
        p2 == SkipIf(text, p1 + 3, {")"})
        p3 == SkipIf(text, p2, SepChars)
        p4 == SkipIf(text, p3 + 3, SepChars)
    IN  IF DigitsAt(text, p1, 3) /\ DigitsAt(text, p3, 3) /\ DigitsAt(text, p4, 4)
        THEN p4 + 4 ELSE 0

\* phoneRegex at i: (?:\+1[\s.-]?)? and then the rest; "+" cannot begin the
\* rest, so a "+1" that is there is taken or nothing matches at i
PhoneMatchEnd(text, i) ==
    IF CharAt(text, i) = "+" /\ CharAt(text, i + 1) = "1"
    THEN PhoneRestEnd(text, SkipIf(text, i + 2, SepChars))
    ELSE PhoneRestEnd(text, i)

RECURSIVE PhoneCandidates(_, _)
\* body.matchAll(phoneRegex) from position i on
PhoneCandidates(text, i) ==
    IF i > Len(text) THEN <<>>
    ELSE LET e == PhoneMatchEnd(text, i) IN
         IF e = 0 THEN PhoneCandidates(text, i + 1)
         ELSE <<SubSeq(text, i, e - 1)>> \o PhoneCandidates(text, e)

\* digits.length === 10 || (digits.length === 11 && digits.startsWith('1'))
IsPickable(cand) ==
    LET digits == StripNonDigits(cand) IN
    Len(digits) = 10 \/ (Len(digits) = 11 /\ digits[1] = "1")

PhoneRecipient(text) ==
    LET picked == SelectSeq(PhoneCandidates(text, 1), IsPickable) IN
    IF picked = <<>> THEN <<>>
    ELSE LET n == normalizePhoneToE164(Head(picked)) IN
         IF n.ok THEN n.val ELSE <<>>

Contains(text, word) ==
    \E i \in 1..(Len(text) - Len(word) + 1) : SubSeq(text, i, i + Len(word) - 1) = word

AmountWords ==
    {<<"b", "u", "c", "k", "s">>, <<"d", "o", "l", "l", "a", "r", "s">>,
     <<"u", "s", "d", "c">>, <<"v", "c", "a", "r", "d">>, <<"u", "s", "d">>}

\* body.match(/\d|\$|bucks|dollars|usdc|vcard|usd/i)
HasAmountHint(text) ==
    \/ \E i \in 1..Len(text) : text[i] \in DigitChars \cup {"$"}
    \/ \E word \in AmountWords : Contains(LowerText(text), word)

RECURSIVE RunEnd(_, _, _)
\* the first position from i on whose character is not of the class
RunEnd(text, i, class) ==
    IF CharAt(text, i) \in class THEN RunEnd(text, i + 1, class) ELSE i

RECURSIVE NameWordsEnd(_, _)
\* (?:\s+[A-Z][a-z.]+)* from position e on, case-insensitive
NameWordsEnd(text, e) ==
    LET w == RunEnd(text, e, WhiteChars) IN
    IF w > e /\ CharAt(text, w) \in Letters /\ CharAt(text, w + 1) \in Letters \cup {"."}
    THEN NameWordsEnd(text, RunEnd(text, w + 1, Letters \cup {"."}))
    ELSE e

\* /([A-Z][a-z]+(?:\s+[A-Z][a-z.]+)*)/gi at i: the position after the match, or 0
NameMatchEnd(text, i) ==
    IF CharAt(text, i) \in Letters /\ CharAt(text, i + 1) \in Letters
    THEN NameWordsEnd(text, RunEnd(text, i, Letters))
    ELSE 0

RECURSIVE NameCandidates(_, _)
NameCandidates(text, i) ==
    IF i > Len(text) THEN <<>>
    ELSE LET e == NameMatchEnd(text, i) IN
         IF e = 0 THEN NameCandidates(text, i + 1)
         ELSE <<SubSeq(text, i, e - 1)>> \o NameCandidates(text, e)

IgnoredWords ==
    {<<"s", "e", "n", "d">>, <<"p", "a", "y">>,
     <<"t", "r", "a", "n", "s", "f", "e", "r">>, <<"g", "i", "v", "e">>,
     <<"g", "i", "v">>, <<"s", "n", "d">>, <<"p", "l", "s">>,
     <<"s", "p", "o", "t">>, <<"c", "a", "s", "h">>,
     <<"g", "i", "m", "m", "e">>, <<"y", "e", "s">>,
     <<"c", "o", "n", "f", "i", "r", "m">>, <<"y">>, <<"y", "e", "a", "h">>,
     <<"y", "e", "p">>, <<"o", "k">>, <<"s", "u", "r", "e">>,
     <<"b", "e", "g", "i", "n">>, <<"v", "c", "a", "r", "d">>, <<"f", "n">>,
     <<"t", "e", "l">>, <<"t", "y", "p", "e">>, <<"u", "s", "d">>,
     <<"c", "e", "l", "l">>, <<"e", "n", "d">>, <<"b", "u", "c", "k", "s">>,
     <<"d", "o", "l", "l", "a", "r">>, <<"d", "o", "l", "l", "a", "r", "s">>,
     <<"u", "s", "d", "c">>, <<"f", "o", "r">>, <<"t", "o">>}

\* candidate.toLowerCase().split(/\s+/), no word of it in the ignored set
NotIgnored(cand) ==
    LET low == LowerText(cand) IN
    \A i \in 1..Len(low), j \in 1..Len(low) :
        (/\ i <= j
         /\ CharAt(low, i - 1) \in WhiteChars \cup {""}
         /\ CharAt(low, j + 1) \in WhiteChars \cup {""}
         /\ \A k \in i..j : low[k] \notin WhiteChars)
        => SubSeq(low, i, j) \notin IgnoredWords

NameRecipient(text) ==
    LET kept == SelectSeq(NameCandidates(text, 1), NotIgnored) IN
    IF kept = <<>> THEN <<>> ELSE Head(kept)

\* lines 60-129: the recipient found in the body itself
LocalRecipient(text) ==
    IF PhoneRecipient(text) # <<>> THEN PhoneRecipient(text)
    ELSE IF HasAmountHint(text) THEN NameRecipient(text)
    ELSE <<>>

\* what openai.chat.completions.create can do: reject, answer a text that is
\* not JSON, or answer a JSON object with or without a recipient of its own
\* choosing
ClassifierObjects ==
    [amount : {10}, recipient : {NoText, E164B, NameJohn}, memo : {""}, trigger : {"direct"}]
    \cup [amount : {10}, memo : {""}, trigger : {"direct"}]

ClassifierResponses ==
    {[kind |-> k, obj |-> [amount |-> 0, trigger |-> ""]] : k \in {"rejected", "not json"}}
    \cup {[kind |-> "json", obj |-> o] : o \in ClassifierObjects}

\* a parseIntent that keeps the recipient the classifier answered
parseIntentTrusting(body, response) ==
    IF response.kind # "json" THEN Throw("Failed to get response from Open AI")
    ELSE Ok([f \in DOMAIN response.obj \cup {"recipient"} |->
                IF f \in DOMAIN response.obj THEN response.obj[f]
                ELSE LocalRecipient(body)])

parseIntent(body, response) ==
    LET recipient == LocalRecipient(body) IN
    IF response.kind # "json" THEN Throw("Failed to get response from Open AI")
    ELSE Ok([f \in DOMAIN response.obj \cup {"recipient"} |->
                IF f = "recipient" THEN recipient ELSE response.obj[f]])

\* 'Send $10 to +123-456-0610 for lunch'
BodyStandard ==
    <<"S", "e", "n", "d", " ", "$", "1", "0", " ", "t", "o", " ", "+", "1",
      "2", "3", "-", "4", "5", "6", "-", "0", "6", "1", "0", " ", "f", "o",
      "r", " ", "l", "u", "n", "c", "h">>

\* 'BEGIN:VCARD FN:John Doe TEL;TYPE=CELL:123-456-7890 END:VCARD'
BodyVCard ==
    <<"B", "E", "G", "I", "N", ":", "V", "C", "A", "R", "D", " ", "F", "N",
      ":", "J", "o", "h", "n", " ", "D", "o", "e", " ", "T", "E", "L", ";",
      "T", "Y", "P", "E", "=", "C", "E", "L", "L", ":", "1", "2", "3", "-",
      "4", "5", "6", "-", "7", "8", "9", "0", " ", "E", "N", "D", ":", "V",
      "C", "A", "R", "D">>

\* 'Send $10 for lunch'
BodyNoRecipient ==
    <<"S", "e", "n", "d", " ", "$", "1", "0", " ", "f", "o", "r", " ", "l",
      "u", "n", "c", "h">>

\* 'gimme 20bucks to(415)5551234 for movie'
BodySloppy ==
    <<"g", "i", "m", "m", "e", " ", "2", "0", "b", "u", "c", "k", "s", " ",
      "t", "o", "(", "4", "1", "5", ")", "5", "5", "5", "1", "2", "3", "4",
      " ", "f", "o", "r", " ", "m", "o", "v", "i", "e">>

\* '$10 John Doe'
BodyName ==
    <<"$", "1", "0", " ", "J", "o", "h", "n", " ", "D", "o", "e">>

\* 'pay 4155550001 not +1 415.555.1234'
BodyTwoPhones ==
    <<"p", "a", "y", " ", "4", "1", "5", "5", "5", "5", "0", "0", "0", "1",
      " ", "n", "o", "t", " ", "+", "1", " ", "4", "1", "5", ".", "5", "5",
      "5", ".", "1", "2", "3", "4">>

\* 'Send $5 to 14155550001'
BodyElevenDigits ==
    <<"S", "e", "n", "d", " ", "$", "5", " ", "t", "o", " ", "1", "4", "1",
      "5", "5", "5", "5", "0", "0", "0", "1">>

ParserBodies ==
    {BodyStandard, BodyVCard, BodyNoRecipient, BodySloppy,
     BodyName, BodyTwoPhones, BodyElevenDigits, NoText}

\* one body parsed twice, the classifier answering first and second
UnitParseIntent(body, first, second) ==
    /\ lastCall' = [op |-> "parseIntent", body |-> body,
                    responses |-> <<first, second>>,
                    results |-> <<parseIntent(body, first), parseIntent(body, second)>>]
    /\ UNCHANGED <<users, ledgerUsers, now, ticks, uuids, reqs>>

NextParse ==
    \E body \in ParserBodies, first \in ClassifierResponses, second \in ClassifierResponses :
        UnitParseIntent(body, first, second)

SpecParse == InitUnit /\ [][NextParse]_vars

(***************************************************************************)
(* Vocabulary of the properties.                                           *)
(***************************************************************************)
Arrived(r) == reqs[r].pc # "idle"

Finished(r) == reqs[r].pc = "done"

Is(r, trigger) == Arrived(r) /\ reqs[r].parsed.trigger = trigger

NothingAfter(r) == \A q \in ReqIds : q > r => ~Arrived(q)

\* the pending transfer a user record holds, if it holds one
HoldsPending(table, h) ==
    table[h].present /\ table[h].pending_actions.kind = "json"

HoldsPendingId(table, h, id) ==
    HoldsPending(table, h) /\ table[h].pending_actions.obj.actionId = id

\* what a reader of the column takes for a pending transfer
ReadsPending(table, h) == table[h].present /\ TextTruthy(table[h].pending_actions)

SettleCalls(r) == Len(reqs[r].settlements)

SettledOk(r) ==
    \E i \in 1..Len(reqs[r].settlements) : reqs[r].settlements[i].call.outcome = "confirmed"

LastReply(q) == q.replies[Len(q.replies)]

Replied(r, msg) == reqs[r].replies # <<>> /\ reqs[r].replies[1] = msg

\* the step in which request r produces a reply
Replies(r) == Len(reqs'[r].replies) > Len(reqs[r].replies)

\* the replies that are InvalidTransfer (bad amount, self-transfer) and the
\* replies that are InvalidContact
InvalidTransferReplies == {"Invalid amount", "Self-send not allowed"}

InvalidContactReplies == {"Recipient missing", "Invalid recipient"}

\* a direct intent whose preconditions hold
ValidDirect(r) ==
    /\ Is(r, "direct")
    /\ DirectRejection(reqs[r].fromHash, reqs[r].parsed) = "none"

(***************************************************************************)
(* C1.  Two confirmations of one sender that run concurrently on one live *)
(* pending transfer call the Settlement Adapter once in total, never      *)
(* twice: no pending transfer is submitted to the ledger by both.         *)
(***************************************************************************)
C1_ConcurrentConfirmsSettleOnce ==
    \A r1, r2 \in ReqIds :
        (/\ r1 < r2
         /\ Is(r1, "confirmation") /\ Is(r2, "confirmation")
         /\ reqs[r1].fromHash = reqs[r2].fromHash
         /\ ~reqs[r2].solo)
        => SettleCalls(r1) + SettleCalls(r2) <= 1

(***************************************************************************)
(* C2.  A submit with amount a > 0 to a recipient other than the sender,  *)
(* followed at once by a confirm of the same sender, every ledger and     *)
(* notification call succeeding, yields exactly one settlement call, with *)
(* amount a, and leaves the sender without a pending transfer.            *)
(***************************************************************************)
C2_SubmitThenConfirmSettlesOnce ==
    \A r \in ReqIds :
        (/\ r + 1 \in ReqIds
         /\ ValidDirect(r) /\ reqs[r].solo /\ Finished(r)
         /\ Is(r + 1, "confirmation") /\ reqs[r + 1].solo /\ Finished(r + 1)
         /\ reqs[r + 1].fromHash = reqs[r].fromHash
         /\ NothingAfter(r + 1)
         /\ \A i \in 1..Len(reqs[r + 1].provisions) : reqs[r + 1].provisions[i].ok
         /\ \A i \in 1..Len(reqs[r + 1].settlements) :
                reqs[r + 1].settlements[i].call.outcome = "confirmed"
         /\ Len(reqs[r + 1].notifications) = Len(reqs[r + 1].settlements))
        => /\ SettleCalls(r + 1) = 1
           /\ reqs[r + 1].settlements[1].call.amount = reqs[r].parsed.amount
           /\ ~ReadsPending(users, reqs[r].fromHash)

(***************************************************************************)
(* C3.  A ledgerInitialized flag (wallet_init) that is true is never set  *)
(* back to false, by any step of any handler.                             *)
(***************************************************************************)
C3_LedgerInitializedNeverReverted ==
    [][\A h \in Hashes :
          (users[h].present /\ users[h].wallet_init)
          => (users'[h].present /\ users'[h].wallet_init)]_vars

\* a submit of a sender has run to its end next to a confirmation that
\* provisioned that sender, and the sender's flag is true
C3_Witness ==
    \E r1, r2 \in ReqIds :
        /\ ValidDirect(r1) /\ Finished(r1)
        /\ Is(r2, "confirmation")
        /\ ~reqs[r1].solo \/ ~reqs[r2].solo
        /\ \E i \in 1..Len(reqs[r2].provisions) :
              /\ reqs[r2].provisions[i].hash = reqs[r1].fromHash
              /\ reqs[r2].provisions[i].ok
        /\ users[reqs[r1].fromHash].wallet_init

(***************************************************************************)
(* C4.  When the settlement call of a confirm has succeeded, the pending  *)
(* transfer it settled is cleared once that confirm has finished, also    *)
(* when the notification of the recipient failed.                         *)
(***************************************************************************)
C4_SettledPendingIsCleared ==
    \A r \in ReqIds :
        (Is(r, "confirmation") /\ Finished(r) /\ SettledOk(r))
        => ~HoldsPendingId(users, reqs[r].fromHash, reqs[r].settlements[1].pendingId)

(***************************************************************************)
(* C5.  Once a settlement call for a pending transfer has timed out, no   *)
(* later confirm submits that pending transfer again.  (Nothing in the    *)
(* code queries the status of a transaction, so a second call is always   *)
(* one made without a status query.)                                      *)
(***************************************************************************)
C5_NoSettlementAfterTimeout ==
    \A r1, r2 \in ReqIds :
        (r1 < r2 /\ reqs[r2].solo)
        => ~\E i \in 1..Len(reqs[r1].settlements), j \in 1..Len(reqs[r2].settlements) :
                /\ reqs[r1].settlements[i].call.outcome = "timeout"
                /\ reqs[r2].settlements[j].pendingId = reqs[r1].settlements[i].pendingId

(***************************************************************************)
(* C6.  A confirm that finds a pending transfer is turned away as expired *)
(* exactly when the time of the check is after expiresAt (not at          *)
(* expiresAt); a confirm turned away as expired answers 'Transfer         *)
(* expired', has made no provisioning and no settlement call, and leaves  *)
(* the sender without a pending transfer.                                 *)
(***************************************************************************)
C6_ExpiredExactlyAfterExpiresAt ==
    [][\A r \in ReqIds :
          LET h == reqs[r].fromHash IN
          /\ (At(r, "confirm") /\ reqs'[r].pc # "confirm" /\ HoldsPending(users, h))
             => (reqs'[r].pc = "confirm_expired"
                    <=> now > users[h].pending_actions.obj.expires)
          /\ (At(r, "confirm_expired") /\ reqs'[r].pc # "confirm_expired")
             => /\ reqs'[r].pc = "done"
                /\ reqs'[r].replies = <<"Transfer expired">>
          /\ (Replies(r) /\ LastReply(reqs'[r]) = "Transfer expired")
             => /\ At(r, "confirm_expired")
                /\ ~ReadsPending(users', h)
                /\ reqs'[r].provisions = <<>>
                /\ reqs'[r].settlements = <<>>]_vars

C6_Witness ==
    \E r \in ReqIds :
        /\ Is(r, "confirmation") /\ Finished(r)
        /\ reqs[r].replies = <<"Transfer expired">>
        /\ ~ReadsPending(users, reqs[r].fromHash)

(***************************************************************************)
(* C7.  A pending transfer whose expiresAt is in the past is absent to    *)
(* every reader: a cancel that finds only an expired pending transfer     *)
(* answers that there is none.                                            *)
(***************************************************************************)
C7_ExpiredPendingIsAbsentToCancel ==
    [][\A r \in ReqIds :
          LET h == reqs[r].fromHash IN
          (/\ At(r, "cancel") /\ reqs'[r].pc # "cancel"
           /\ HoldsPending(users, h)
           /\ now > users[h].pending_actions.obj.expires)
          => /\ reqs'[r].pc = "done"
             /\ reqs'[r].replies = <<"No pending transfer to cancel">>]_vars

(***************************************************************************)
(* C8.  A cancel that finds no pending transfer answers that there is     *)
(* none and changes nothing; a cancel that finds one clears it and        *)
(* answers 'Transaction cancelled'; a confirm that then finds none        *)
(* answers 'No pending transfer' without a ledger call; and a sender      *)
(* without a pending transfer gets one only by the store of a submit of   *)
(* that sender.                                                           *)
(***************************************************************************)
C8_CancelClearsUntilNextSubmit ==
    [][\A r \in ReqIds :
          LET h == reqs[r].fromHash IN
          /\ (At(r, "cancel") /\ reqs'[r].pc # "cancel")
             => IF ReadsPending(users, h)
                THEN reqs'[r].pc = "cancel_clear" /\ reqs'[r].replies = <<>>
                ELSE /\ reqs'[r].pc = "done"
                     /\ reqs'[r].replies = <<"No pending transfer to cancel">>
                     /\ users' = users /\ ledgerUsers' = ledgerUsers
          /\ (At(r, "cancel_clear") /\ reqs'[r].pc # "cancel_clear")
             => /\ ~ReadsPending(users', h)
                /\ reqs'[r].pc = "done"
                /\ reqs'[r].replies = <<"Transaction cancelled">>
          /\ (At(r, "confirm") /\ reqs'[r].pc # "confirm" /\ ~ReadsPending(users, h))
             => /\ reqs'[r].pc = "done"
                /\ reqs'[r].replies = <<"No pending transfer">>
                /\ reqs'[r].provisions = <<>> /\ reqs'[r].settlements = <<>>
                /\ users' = users /\ ledgerUsers' = ledgerUsers
          /\ \A g \in Hashes :
                (~ReadsPending(users, g) /\ ReadsPending(users', g))
                => \E q \in ReqIds :
                      /\ At(q, "direct_store") /\ reqs[q].fromHash = g
                      /\ reqs'[q].pc = "direct_recipient"]_vars

\* a cancel has cleared a pending transfer and the next message of that
\* sender, a confirm, was answered 'No pending transfer'
C8_Witness ==
    \E r1, r2 \in ReqIds :
        /\ r1 < r2 /\ reqs[r2].solo
        /\ Is(r1, "cancel") /\ reqs[r1].replies = <<"Transaction cancelled">>
        /\ Is(r2, "confirmation") /\ reqs[r2].fromHash = reqs[r1].fromHash
        /\ Finished(r2) /\ reqs[r2].replies = <<"No pending transfer">>
        /\ reqs[r2].settlements = <<>>

(***************************************************************************)
(* C9.  After a submit whose preconditions hold the sender holds exactly  *)
(* the pending transfer just submitted: its amount, memo and recipient    *)
(* hash, a fresh actionId, and expiresAt = now + TTL.                     *)
(***************************************************************************)
C9_SubmitStoresThePendingTransfer ==
    \A r \in ReqIds :
        (ValidDirect(r) /\ Finished(r) /\ reqs[r].solo /\ NothingAfter(r))
        => LET h == reqs[r].fromHash IN
           /\ HoldsPending(users, h)
           /\ LET stored == users[h].pending_actions.obj IN
              /\ stored.amount = reqs[r].parsed.amount
              /\ stored.memo = reqs[r].parsed.memo
              /\ stored.recipientHash = hashPhone(reqs[r].parsed.recipient).val
              /\ stored.actionId \in {randomUUID(n) : n \in 1..uuids}
              /\ stored.expires \in {t + EXPIRES_MS : t \in Now0..now}

(***************************************************************************)
(* C10.  A submit with amount <= 0 is turned away before anything is      *)
(* read or written: no pending transfer is created or changed and no      *)
(* ledger call is made.  As first stated, the answer is always an         *)
(* InvalidTransfer.                                                        *)
(***************************************************************************)
C10_NonPositiveAmountIsInvalidTransfer ==
    [][\A r \in ReqIds :
          (/\ At(r, "idle") /\ reqs'[r].pc # "idle"
           /\ reqs'[r].parsed.trigger = "direct" /\ reqs'[r].parsed.amount <= 0)
          => /\ reqs'[r].pc = "done"
             /\ Len(reqs'[r].replies) = 1
             /\ reqs'[r].replies[1] \in InvalidTransferReplies
             /\ reqs'[r].provisions = <<>> /\ reqs'[r].settlements = <<>>
             /\ users' = users /\ ledgerUsers' = ledgerUsers]_vars

\* C10 as amended: the answer is an InvalidTransfer when the recipient
\* contact normalizes, and the recipient's InvalidContact when it does not.
C10_NonPositiveAmountIsRejected ==
    [][\A r \in ReqIds :
          (/\ At(r, "idle") /\ reqs'[r].pc # "idle"
           /\ reqs'[r].parsed.trigger = "direct" /\ reqs'[r].parsed.amount <= 0)
          => /\ reqs'[r].pc = "done"
             /\ Len(reqs'[r].replies) = 1
             /\ IF normalizePhoneToE164(reqs'[r].parsed.recipient).ok
                THEN reqs'[r].replies[1] \in InvalidTransferReplies
                ELSE reqs'[r].replies[1] \in InvalidContactReplies
             /\ reqs'[r].provisions = <<>> /\ reqs'[r].settlements = <<>>
             /\ users' = users /\ ledgerUsers' = ledgerUsers]_vars

\* a sender holding a pending transfer was answered 'Invalid amount'
C10_Witness ==
    \E r \in ReqIds :
        /\ Is(r, "direct") /\ reqs[r].parsed.amount <= 0 /\ Finished(r)
        /\ reqs[r].replies = <<"Invalid amount">>
        /\ HoldsPending(users, reqs[r].fromHash)

(***************************************************************************)
(* C11.  A submit whose recipient contact hashes to the sender's own      *)
(* identity hash is answered 'Self-send not allowed' (an InvalidTransfer) *)
(* whatever the amount, in every format the sender's own number is        *)
(* written in, and no user record is created or changed.                  *)
(***************************************************************************)
C11_SelfSendIsInvalidTransfer ==
    /\ \A f1, f2 \in FormatsOfA, a \in Amounts :
          /\ hashPhone(f1).ok /\ hashPhone(f2).ok
          /\ DirectRejection(hashPhone(f1).val,
                             [trigger |-> "direct", amount |-> a, recipient |-> f2,
                              memo |-> ""]) = "Self-send not allowed"
    /\ [][\A r \in ReqIds :
            (/\ At(r, "idle") /\ reqs'[r].pc # "idle"
             /\ reqs'[r].parsed.trigger = "direct"
             /\ hashPhone(reqs'[r].parsed.recipient).ok
             /\ hashPhone(reqs'[r].parsed.recipient).val = reqs'[r].fromHash)
            => /\ reqs'[r].pc = "done"
               /\ reqs'[r].replies = <<"Self-send not allowed">>
               /\ reqs'[r].replies[1] \in InvalidTransferReplies
               /\ reqs'[r].provisions = <<>> /\ reqs'[r].settlements = <<>>
               /\ users' = users /\ ledgerUsers' = ledgerUsers]_vars

\* a sender who wrote their number without the country code, and holds a
\* pending transfer, was turned away for sending a non-positive amount to
\* that number in E.164
C11_Witness ==
    \E r \in ReqIds :
        /\ Is(r, "direct") /\ Finished(r)
        /\ reqs[r].from = PhoneA /\ reqs[r].parsed.recipient = E164A
        /\ reqs[r].from # reqs[r].parsed.recipient
        /\ reqs[r].parsed.amount <= 0
        /\ reqs[r].replies = <<"Self-send not allowed">>
        /\ HoldsPending(users, reqs[r].fromHash)

(***************************************************************************)
(* C12.  A confirm of a sender without a pending transfer (no record, a   *)
(* record created only as a recipient, whose pending_actions is the empty *)
(* text, or a record whose pending transfer was cleared to NULL) answers  *)
(* 'No pending transfer' and returns: no provisioning call, no settlement *)
(* call, no notification, nothing written.                                *)
(***************************************************************************)
C12_ConfirmWithoutPendingFails ==
    [][\A r \in ReqIds :
          LET row == users[reqs[r].fromHash] IN
          (/\ At(r, "confirm") /\ reqs'[r].pc # "confirm"
           /\ \/ ~row.present
              \/ row.pending_actions = EmptyText
              \/ row.pending_actions = SqlNull)
          => /\ reqs'[r].pc = "done"
             /\ reqs'[r].replies = <<"No pending transfer">>
             /\ reqs'[r].provisions = <<>>
             /\ reqs'[r].settlements = <<>>
             /\ reqs'[r].notifications = <<>>
             /\ users' = users /\ ledgerUsers' = ledgerUsers]_vars

\* a confirm settled and cleared a pending transfer, and the next confirm of
\* that sender was answered 'No pending transfer'
C12_Witness ==
    \E r1, r2 \in ReqIds :
        /\ r1 < r2 /\ reqs[r2].solo
        /\ Is(r1, "confirmation") /\ SettledOk(r1)
        /\ Is(r2, "confirmation") /\ reqs[r2].fromHash = reqs[r1].fromHash
        /\ Finished(r2) /\ reqs[r2].replies = <<"No pending transfer">>
        /\ users[reqs[r2].fromHash].pending_actions = SqlNull
        /\ reqs[r2].provisions = <<>> /\ reqs[r2].settlements = <<>>
        /\ reqs[r2].notifications = <<>>

(***************************************************************************)
(* C13.  The step in which the settlement call of a confirm fails writes  *)
(* nothing: the sender's pending transfer stays as it was (actionId,      *)
(* amount, recipient, expiresAt).  A confirm that ran alone and whose     *)
(* settlement call failed leaves the sender holding the pending transfer  *)
(* it tried to settle, for a later confirm to find.                       *)
(***************************************************************************)
FailedSettle(r) ==
    /\ reqs[r].settlements # <<>>
    /\ reqs[r].settlements[Len(reqs[r].settlements)].call.outcome # "confirmed"

C13_FailedSettlementKeepsPending ==
    /\ [][\A r \in ReqIds :
            (/\ At(r, "confirm_settle")
             /\ Len(reqs'[r].settlements) > Len(reqs[r].settlements)
             /\ reqs'[r].settlements[Len(reqs'[r].settlements)].call.outcome
                    # "confirmed")
            => /\ users' = users
               /\ reqs'[r].pc = "done"]_vars
    /\ [](\A r \in ReqIds :
            (/\ Is(r, "confirmation") /\ Finished(r) /\ FailedSettle(r)
             /\ reqs[r].solo /\ NothingAfter(r))
            => LET h == reqs[r].fromHash
                   attempt == reqs[r].settlements[1]
               IN  /\ HoldsPendingId(users, h, attempt.pendingId)
                   /\ users[h].pending_actions.obj.amount = attempt.call.amount
                   /\ users[h].pending_actions.obj.recipientHash = attempt.call.to)

\* the ledger rejected the transfer of one confirm, and the next confirm of
\* that sender found the same pending transfer and called the ledger again
C13_Witness ==
    \E r1, r2 \in ReqIds :
        /\ r1 < r2 /\ reqs[r2].solo
        /\ Is(r1, "confirmation") /\ FailedSettle(r1)
        /\ reqs[r1].settlements[1].call.outcome = "rejected"
        /\ Is(r2, "confirmation") /\ reqs[r2].fromHash = reqs[r1].fromHash
        /\ reqs[r2].settlements # <<>>
        /\ reqs[r2].settlements[1].pendingId = reqs[r1].settlements[1].pendingId
        /\ reqs[r2].settlements[1].call.amount = reqs[r1].settlements[1].call.amount

(***************************************************************************)
(* C14.  Of two initUserIfNeeded calls for an identity the ledger did not *)
(* know: when the second starts after the first has succeeded (ledger     *)
(* call confirmed, wallet_init written), the second makes no ledger call; *)
(* when the two overlap and both ledger calls are confirmed, both return  *)
(* and the identity's wallet_init is true.                                *)
(***************************************************************************)
ProvisionedFresh(r, h) ==
    \E i \in 1..Len(reqs[r].provisions) :
        /\ reqs[r].provisions[i].hash = h
        /\ reqs[r].provisions[i].ok
        /\ reqs[r].provisions[i].fresh

CallsLedgerFor(r, h) ==
    \E j \in 1..Len(reqs[r].provisions) : reqs[r].provisions[j].hash = h

C14_SecondProvisioningIsNoOp ==
    \A r1, r2 \in ReqIds : \A h \in Hashes :
        (/\ r1 < r2
         /\ ProvisionedFresh(r1, h)
         /\ users[h].present /\ users[h].wallet_init)
        => IF reqs[r2].solo
           THEN ~CallsLedgerFor(r2, h)
           ELSE (\E j \in 1..Len(reqs[r2].provisions) :
                    reqs[r2].provisions[j].hash = h /\ reqs[r2].provisions[j].ok)
                => users[h].wallet_init

(***************************************************************************)
(* C15.  retry, called with its defaults as handleDirectIntent calls it,  *)
(* calls the provisioning function at most 3 times, waits 1000 ms before  *)
(* the second call and 2000 ms before the third, makes no call after one  *)
(* that succeeded, and after the third failure gives up: no timer is set  *)
(* and nothing more happens.                                              *)
(***************************************************************************)
DefaultDelays == <<1000, 2000>>

C15_RetryIsBounded ==
    /\ [](\A r \in ReqIds :
            reqs[r].background # ""
            => /\ reqs[r].attempts \in 1..3
               /\ reqs[r].delays = SubSeq(DefaultDelays, 1, reqs[r].attempts - 1)
               /\ At(r, "retry_wait") => reqs[r].attempts < 3
               /\ reqs[r].background = "abandoned"
                     => reqs[r].attempts = 3 /\ Finished(r)
               /\ reqs[r].background = "returned" => Finished(r))
    /\ [][\A r \in ReqIds :
            /\ reqs[r].background \in {"returned", "abandoned"}
                  => reqs'[r] = reqs[r]
            /\ (reqs[r].background = "started" /\ reqs[r].attempts = 3
                 /\ reqs'[r].pc = "done")
                  => reqs'[r].background \in {"returned", "abandoned"}]_vars

\* three calls failed, 1000 ms and 2000 ms apart, and the work was abandoned
C15_Witness ==
    \E r \in ReqIds :
        /\ reqs[r].background = "abandoned"
        /\ reqs[r].attempts = 3
        /\ reqs[r].delays = <<1000, 2000>>
        /\ Len(reqs[r].provisions) = 3
        /\ \A i \in 1..3 : ~reqs[r].provisions[i].ok

(***************************************************************************)
(* C16.  A submit whose preconditions hold answers with the confirmation  *)
(* prompt, and with nothing else whatever becomes of the provisioning it  *)
(* started in the background; a step of that background provisioning      *)
(* leaves the sender's pending transfer as it is.                         *)
(***************************************************************************)
C16_PromptSentAndBackgroundSilent ==
    /\ [](\A r \in ReqIds :
            (ValidDirect(r) /\ reqs[r].pc \notin {"direct_sender", "direct_store"})
            => reqs[r].replies = <<"Confirm: yes or no">>)
    /\ [][\A r \in ReqIds :
            (reqs[r].party = "background" /\ reqs'[r] # reqs[r])
            => users'[reqs[r].fromHash].pending_actions
                  = users[reqs[r].fromHash].pending_actions]_vars

(***************************************************************************)
(* C17.  A confirm in which one provisioning call failed, and only one,   *)
(* called the ledger again for that identity: the single failure was      *)
(* retried inside the confirm.                                            *)
(***************************************************************************)
FailedProvisions(r) ==
    {i \in 1..Len(reqs[r].provisions) : ~reqs[r].provisions[i].ok}

C17_ConfirmRetriesProvisioning ==
    \A r \in ReqIds :
        (/\ Is(r, "confirmation") /\ Finished(r)
         /\ Cardinality(FailedProvisions(r)) = 1)
        => \A i \in FailedProvisions(r) :
              \E j \in 1..Len(reqs[r].provisions) :
                  /\ j > i
                  /\ reqs[r].provisions[j].hash = reqs[r].provisions[i].hash

(***************************************************************************)
(* C18.  After the background provisioning of a sender was abandoned, a   *)
(* confirm of that sender that arrives later has provisioned the sender,  *)
(* with a confirmed ledger call of its own, by the time it reaches the    *)
(* settlement call.                                                       *)
(***************************************************************************)
AtOrPastSettle(r) ==
    \/ reqs[r].pc \in {"confirm_settle", "confirm_notify", "confirm_clear"}
    \/ reqs[r].settlements # <<>>

C18_ConfirmProvisionsAfterAbandonedRetry ==
    \A r1, r2 \in ReqIds :
        (/\ r1 < r2
         /\ reqs[r1].background = "abandoned"
         /\ Is(r2, "confirmation") /\ reqs[r2].solo
         /\ reqs[r2].fromHash = reqs[r1].fromHash
         /\ AtOrPastSettle(r2))
        => \E i \in 1..Len(reqs[r2].provisions) :
              /\ reqs[r2].provisions[i].hash = reqs[r2].fromHash
              /\ reqs[r2].provisions[i].ok

\* all three background calls failed, the ledger did not know the sender
\* when the later confirm called it, and that confirm went on to settle
C18_Witness ==
    \E r1, r2 \in ReqIds :
        /\ r1 < r2
        /\ reqs[r1].background = "abandoned"
        /\ \A i \in 1..Len(reqs[r1].provisions) : ~reqs[r1].provisions[i].ok
        /\ Is(r2, "confirmation") /\ reqs[r2].solo
        /\ reqs[r2].fromHash = reqs[r1].fromHash
        /\ reqs[r2].provisions # <<>>
        /\ reqs[r2].provisions[1].hash = reqs[r2].fromHash
        /\ reqs[r2].provisions[1].fresh /\ reqs[r2].provisions[1].ok
        /\ SettledOk(r2)

(***************************************************************************)
(* C19.  Two confirms whose settlement calls failed in different ways     *)
(* (never sent, rejected by the ledger, timed out after submission) do    *)
(* not get the same answer.                                               *)
(***************************************************************************)
C19_SettlementFailuresAreDistinguished ==
    \A r1, r2 \in ReqIds :
        (/\ r1 # r2
         /\ Is(r1, "confirmation") /\ Finished(r1) /\ FailedSettle(r1)
         /\ Is(r2, "confirmation") /\ Finished(r2) /\ FailedSettle(r2)
         /\ reqs[r1].settlements[Len(reqs[r1].settlements)].call.outcome
               # reqs[r2].settlements[Len(reqs[r2].settlements)].call.outcome)
        => LastReply(reqs[r1]) # LastReply(reqs[r2])

(***************************************************************************)
(* C20.  Every settlement call, whatever its outcome, is logged with the  *)
(* actionId of the pending transfer it was made for.                      *)
(***************************************************************************)
C20_SettlementLoggedWithActionId ==
    \A r \in ReqIds : \A i \in 1..Len(reqs[r].settlements) :
        reqs[r].settlements[i].logged = reqs[r].settlements[i].pendingId

(***************************************************************************)
(* The Account Directory and the Identity Hasher called by themselves      *)
(* (SpecUnit).                                                             *)
(***************************************************************************)
DirectoryOps == {"getUser", "insertUser", "updateUser"}

Columns == DOMAIN NoRow \ {"present"}

UpperHexChars == {"A", "B", "C", "D", "E", "F"}

\* a text of exactly 64 hexadecimal characters, of either case
IsHex64(s) == StrLen(s) = HASH_HEX_LENGTH /\ StrChars(s) \subseteq HexChars \cup UpperHexChars

\* the stored rows
Records(table) == {k \in DOMAIN table : table[k].present}

\* the updates that name at least one field and give it a value updateUser accepts
AcceptedUpdates(updates) ==
    /\ DOMAIN updates # {}
    /\ \A f \in DOMAIN updates \ {"wallet_init", "is_bank_linked", "pending_actions"} :
          updates[f] # ""

C26_UpdateOfMissingUserIsNotFound ==
    [][(/\ lastCall'.op = "updateUser"
        /\ IsHex64(lastCall'.phoneHash)
        /\ ~users[toLowerCase(lastCall'.phoneHash)].present)
        => /\ lastCall'.result = Throw("User not found")
           /\ users' = users]_vars

\* C26: updateUser on a well-formed hash without a record fails and leaves the
\* table as it was, no record created; the failure is 'User not found' when
\* the update names at least one field and every text it gives is non-empty,
\* and the argument's own error otherwise.
C26_UpdateOfMissingUserFails ==
    [][(/\ lastCall'.op = "updateUser"
        /\ IsHex64(lastCall'.phoneHash)
        /\ ~users[toLowerCase(lastCall'.phoneHash)].present)
        => /\ ~lastCall'.result.ok
           /\ users' = users
           /\ Records(users') = Records(users)
           /\ AcceptedUpdates(lastCall'.updates)
                 => lastCall'.result = Throw("User not found")
           /\ ~AcceptedUpdates(lastCall'.updates)
                 => lastCall'.result.val \in {"No updates provided",
                                              "Invalid phone: non-empty string required"}]_vars

\* an update of wallet_init was refused for HashB, which has no record, while
\* HashA has one
C26_Witness ==
    /\ lastCall.op = "updateUser"
    /\ lastCall.phoneHash = HashB
    /\ lastCall.updates = [wallet_init |-> TRUE]
    /\ lastCall.result = Throw("User not found")
    /\ Records(users) = {HashA}

\* C27: after a successful insertUser(h, fields), getUser(h) returns exactly
\* the given values, whether or not h had a record; every column of an
\* existing record is overwritten, and no other record appears or changes.
C27_InsertThenGetReturnsFields ==
    [][(lastCall'.op = "insertUser" /\ lastCall'.result.ok)
        => LET args == lastCall'.args
               k == toLowerCase(lastCall'.phoneHash)
               got == getUser(users', lastCall'.phoneHash)
           IN  /\ got.ok /\ got.val.found
               /\ got.val.phone_hash = k
               /\ got.val.wallet_init = JsBool(args.wallet_init)
               /\ got.val.is_bank_linked = JsBool(args.is_bank_linked)
               /\ \A f \in Columns \ {"wallet_init", "is_bank_linked"} :
                     got.val[f] = args[f]
               /\ Records(users') = Records(users) \cup {k}
               /\ \A other \in DOMAIN users \ {k} : users'[other] = users[other]]_vars

\* a record that existed was overwritten by the values of the second list
C27_Witness ==
    /\ lastCall.op = "insertUser"
    /\ lastCall.result.ok
    /\ lastCall.existed
    /\ lastCall.phoneHash = HashA
    /\ lastCall.args.phone = "1234567890"
    /\ users[HashA].phone = "1234567890"
    /\ users[HashA].wallet_init
    /\ users[HashB].present

\* the call that differs from c only in writing its hash in lower case
LowerCaseCall(table, c) ==
    CASE c.op = "getUser" -> [result |-> getUser(table, toLowerCase(c.phoneHash)),
                              table |-> table]
      [] c.op = "insertUser" ->
            LET res == insertUser(table, toLowerCase(c.phoneHash), c.args.wallet_init,
                                  c.args.pending_actions, c.args.is_bank_linked,
                                  c.args.phone, c.args.hashed_pin,
                                  c.args.stripe_customer_id,
                                  c.args.stripe_payment_method_id)
            IN  [result |-> IF res.ok THEN Ok("User info saved") ELSE res,
                 table |-> IF res.ok THEN res.val ELSE table]
      [] c.op = "updateUser" ->
            LET res == updateUser(table, toLowerCase(c.phoneHash), c.updates)
            IN  [result |-> IF res.ok THEN Ok("Updated") ELSE res,
                 table |-> IF res.ok THEN res.val ELSE table]

\* C28: getUser, insertUser and updateUser called with the upper-case form of
\* a hash return what the call with the lower-case form returns and leave the
\* table the lower-case call leaves: they read and write the one record kept
\* under the lower-case form.
C28_HashIsCaseInsensitive ==
    [][(/\ lastCall'.op \in DirectoryOps
        /\ IsHex64(lastCall'.phoneHash)
        /\ lastCall'.phoneHash # toLowerCase(lastCall'.phoneHash))
        => /\ lastCall'.result = LowerCaseCall(users, lastCall').result
           /\ users' = LowerCaseCall(users, lastCall').table
           /\ Records(users') \subseteq Records(users) \cup {toLowerCase(lastCall'.phoneHash)}
           /\ lastCall'.op = "getUser" /\ users[toLowerCase(lastCall'.phoneHash)].present
                 => /\ lastCall'.result.ok /\ lastCall'.result.val.found
                    /\ lastCall'.result.val.phone_hash = toLowerCase(lastCall'.phoneHash)]_vars

\* the record of HashA was read through the upper-case form of HashA
C28_Witness ==
    /\ lastCall.op = "getUser"
    /\ lastCall.phoneHash = toUpperCase(HashA)
    /\ lastCall.phoneHash # HashA
    /\ lastCall.result.ok
    /\ lastCall.result.val.found
    /\ lastCall.result.val.phone_hash = HashA

\* C29: getUser, insertUser and updateUser refuse a hash that is not exactly
\* 64 hexadecimal characters, and the refused call leaves every record as it
\* was.
C29_MalformedHashRejected ==
    [][(lastCall'.op \in DirectoryOps /\ ~IsHex64(lastCall'.phoneHash))
        => /\ ~lastCall'.result.ok
           /\ lastCall'.result.val \in {"Invalid phoneHash: non-empty string required",
                                        "Invalid phoneHash: must be 64-char hex"}
           /\ users' = users]_vars

\* an insertUser whose other arguments are all acceptable was refused for a
\* hash of 64 characters, one of them not hexadecimal, while a record is stored
C29_Witness ==
    /\ lastCall.op = "insertUser"
    /\ lastCall.phoneHash = NonHexHash
    /\ lastCall.args.phone # ""
    /\ ~lastCall.result.ok
    /\ Records(users) = {HashA}

\* C30: hashPhone depends only on the normalized contact: it returns 64
\* hexadecimal characters, the same for any two inputs with the same E.164
\* form, and hashing the E.164 form gives the hash of the input.
C30_HashDependsOnNormalizedContact ==
    (lastCall.op = "hashPhone" /\ normalizePhoneToE164(lastCall.phone).ok)
        => /\ lastCall.result.ok
           /\ IsHex64(lastCall.result.val)
           /\ validatePhoneHash(lastCall.result.val) = Ok(lastCall.result.val)
           /\ hashPhone(normalizePhoneToE164(lastCall.phone).val) = lastCall.result
           /\ \A other \in UnitPhones :
                 normalizePhoneToE164(other) = normalizePhoneToE164(lastCall.phone)
                    <=> hashPhone(other) = lastCall.result

\* a number written with parentheses and a dash was hashed to the hash of
\* its ten digits
C30_Witness ==
    /\ lastCall.op = "hashPhone"
    /\ lastCall.phone = <<"(", "4", "1", "5", ")", " ", "5", "5", "5", "-", "0", "0", "0", "1">>
    /\ lastCall.phone # PhoneA
    /\ lastCall.result = Ok(HashA)

(***************************************************************************)
(* parseIntent called by itself (SpecParse).                               *)
(***************************************************************************)
\* the text is in the body as written, or is the E.164 form of a piece of it
TakenFromBody(body, text) ==
    \/ Contains(body, text)
    \/ \E i \in 1..Len(body), j \in 1..Len(body) :
          normalizePhoneToE164(SubSeq(body, i, j)) = Ok(text)

\* C23: the recipient parseIntent returns depends on the body only: two runs
\* on one body return the same recipient whatever the classifier answered,
\* and that recipient is empty or taken from the body, never the
\* classifier's.
C23_RecipientDependsOnBodyOnly ==
    lastCall.op = "parseIntent"
        => /\ (lastCall.results[1].ok /\ lastCall.results[2].ok)
                 => lastCall.results[1].val.recipient = lastCall.results[2].val.recipient
           /\ \A i \in 1..2 :
                 lastCall.results[i].ok
                    => \/ lastCall.results[i].val.recipient = NoText
                       \/ TakenFromBody(lastCall.body, lastCall.results[i].val.recipient)

\* 'Send $10 to +123-456-0610 for lunch' was parsed twice, the classifier
\* answering recipient +14155551234 once and no recipient once: +11234560610
\* both times
C23_Witness ==
    /\ lastCall.op = "parseIntent"
    /\ lastCall.body = BodyStandard
    /\ lastCall.responses[1].kind = "json"
    /\ lastCall.responses[2].kind = "json"
    /\ "recipient" \in DOMAIN lastCall.responses[1].obj
    /\ lastCall.responses[1].obj.recipient = E164B
    /\ "recipient" \notin DOMAIN lastCall.responses[2].obj
    /\ lastCall.results[1].ok
    /\ lastCall.results[2].ok
    /\ lastCall.results[1].val.recipient = normalizePhoneToE164(<<"1", "2", "3", "4", "5", "6", "0", "6", "1", "0">>).val
    /\ lastCall.results[2].val.recipient = lastCall.results[1].val.recipient
    /\ lastCall.results[1].val.recipient # E164B

(***************************************************************************)
(* The edge of app.post('/sms') (Spec).                                    *)
(***************************************************************************)
FixedRejections == {"Invalid sender phone number", "Invalid message"}

\* C22: parseIntent is called only for a message whose sender normalizes and
\* whose body is non-blank and at most MAX_BODY_LENGTH characters long; every
\* other message is answered with one fixed rejection and nothing else: the
\* step that takes it writes no user record and no ledger account, and the
\* request makes no provisioning, settlement or notification call.
C22_ClassifierOnlyForValidMessages ==
    /\ [](\A r \in ReqIds :
            Arrived(r)
               => /\ reqs[r].classified
                     <=> /\ normalizePhoneToE164(reqs[r].from).ok
                         /\ ~reqs[r].body.blank
                         /\ reqs[r].body.length <= MAX_BODY_LENGTH
                  /\ ~reqs[r].classified
                     => /\ Finished(r)
                        /\ Len(reqs[r].replies) = 1
                        /\ reqs[r].replies[1] \in FixedRejections
                        /\ reqs[r].parsed = NoParsed
                        /\ reqs[r].provisions = <<>>
                        /\ reqs[r].settlements = <<>>
                        /\ reqs[r].notifications = <<>>)
    /\ [][\A r \in ReqIds :
            (~Arrived(r) /\ Arrived(r)' /\ ~reqs'[r].classified)
               => users' = users /\ ledgerUsers' = ledgerUsers]_vars

\* a body of 321 characters from a sender that normalizes was turned away,
\* after a body of exactly 320 characters from the same sender was classified
C22_Witness ==
    /\ Finished(1) /\ Finished(2)
    /\ reqs[1].from = PhoneA
    /\ reqs[1].body = [blank |-> FALSE, length |-> MAX_BODY_LENGTH]
    /\ reqs[1].classified
    /\ reqs[2].from = PhoneA
    /\ reqs[2].body = [blank |-> FALSE, length |-> MAX_BODY_LENGTH + 1]
    /\ ~reqs[2].classified
    /\ reqs[2].replies = <<"Invalid message">>

(***************************************************************************)
(* C21.  Once a submit whose preconditions hold is past its insertUser, a  *)
(* record exists for the recipient: created with wallet_init = false and  *)
(* an empty pending_actions if there was none, and with wallet_init and   *)
(* pending_actions untouched by every step of the submit if there was     *)
(* one, whatever runs in between.                                         *)
(***************************************************************************)
RecipientHashOf(r) == hashPhone(reqs[r].parsed.recipient).val

C21_SubmitEnsuresRecipientRecord ==
    /\ [](\A r \in ReqIds :
            (ValidDirect(r) /\ reqs[r].pc \notin {"direct_sender", "direct_store"})
            => users[RecipientHashOf(r)].present)
    /\ [][\A r \in ReqIds :
            (ValidDirect(r) /\ reqs'[r] # reqs[r])
            => LET h == RecipientHashOf(r) IN
               /\ users[h].present
                     => /\ users'[h].present
                        /\ users'[h].wallet_init = users[h].wallet_init
                        /\ users'[h].pending_actions = users[h].pending_actions
               /\ (~users[h].present /\ users'[h].present)
                     => /\ ~users'[h].wallet_init
                        /\ ~TextTruthy(users'[h].pending_actions)]_vars

(***************************************************************************)
(* C24.  The transfer instruction a confirm submits moves the amount of   *)
(* the pending transfer it read from the sender's account to the          *)
(* recipient's, and carries the memo of that pending transfer.            *)
(***************************************************************************)
\* request r makes its call of executeP2pTransfer in this step
Settles(r) == At(r, "confirm_settle") /\ Len(reqs'[r].settlements) > Len(reqs[r].settlements)

SubmittedCall(r) == reqs'[r].settlements[Len(reqs'[r].settlements)].call

\* the part of C24 about the parties and the amount
SettleMovesStoredAmount ==
    [][\A r \in ReqIds :
          Settles(r)
          => /\ SubmittedCall(r).from = reqs[r].fromHash
             /\ SubmittedCall(r).to = reqs[r].pending.recipientHash
             /\ SubmittedCall(r).amount = reqs[r].pending.amount]_vars

C24_TransferCarriesAmountAndMemo ==
    [][\A r \in ReqIds :
          Settles(r)
          => /\ SubmittedCall(r).from = reqs[r].fromHash
             /\ SubmittedCall(r).to = reqs[r].pending.recipientHash
             /\ SubmittedCall(r).amount = reqs[r].pending.amount
             /\ "memo" \in DOMAIN SubmittedCall(r)
             /\ SubmittedCall(r).memo = reqs[r].pending.memo]_vars

(***************************************************************************)
(* hashPhone on contacts of every digit count (SpecUnit).                  *)
(***************************************************************************)
\* the positions of the digits of a text
DigitPositions(text) == {i \in 1..Len(text) : text[i] \in DigitChars}

\* ten digits, or eleven of which the first is 1
HasPhoneDigits(text) ==
    LET at == DigitPositions(text) IN
    \/ Cardinality(at) = 10
    \/ /\ Cardinality(at) = 11
       /\ text[CHOOSE i \in at : \A j \in at : i <= j] = "1"

NormalizationErrors ==
    {"Phone number is required", "Phone number must contain digits",
     "Phone number must contain at least 10 digits", "Invalid country code",
     "Phone number must contain 10 or 11 digits"}

\* C31: hashPhone succeeds exactly for the inputs with ten digits, or with
\* eleven digits of which the first is 1, whatever else they contain; for
\* every other input it fails, and a failing call returns an error and no
\* hash.
C31_HashFailsOnBadDigitCount ==
    lastCall.op = "hashPhone"
        => /\ lastCall.result.ok <=> HasPhoneDigits(lastCall.phone)
           /\ lastCall.result.ok => IsHex64(lastCall.result.val)
           /\ ~lastCall.result.ok => lastCall.result.val \in NormalizationErrors

\* eleven digits that begin with 0 were refused
C31_Witness ==
    /\ lastCall.op = "hashPhone"
    /\ Cardinality(DigitPositions(lastCall.phone)) = 11
    /\ lastCall.phone[1] = "0"
    /\ ~lastCall.result.ok
    /\ lastCall.result.val = "Invalid country code"

(***************************************************************************)
(* C32.  A confirm calls executeP2pTransfer only after both parties are   *)
(* provisioned, and at most once: at the call the sender and the          *)
(* recipient each have a ledger account and wallet_init set, and that     *)
(* confirm provisioned both with success.  A confirm in which a           *)
(* provisioning failed makes no settlement call, and the failing step     *)
(* leaves the users table, the pending transfer with it, as it was.       *)
(***************************************************************************)
ProvisionedOk(r, h) ==
    \E i \in 1..Len(reqs[r].provisions) :
        reqs[r].provisions[i].hash = h /\ reqs[r].provisions[i].ok

ProvisionFailed(q) == \E i \in 1..Len(q.provisions) : ~q.provisions[i].ok

IsProvisioned(h) == h \in ledgerUsers /\ users[h].present /\ users[h].wallet_init

C32_SettleOnlyAfterProvisioning ==
    /\ [](\A r \in ReqIds :
            /\ Len(reqs[r].settlements) <= 1
            /\ ProvisionFailed(reqs[r]) => reqs[r].settlements = <<>>)
    /\ [][\A r \in ReqIds :
            /\ Settles(r)
                  => /\ reqs[r].settlements = <<>>
                     /\ IsProvisioned(reqs[r].fromHash)
                     /\ IsProvisioned(reqs[r].pending.recipientHash)
                     /\ ProvisionedOk(r, reqs[r].fromHash)
                     /\ ProvisionedOk(r, reqs[r].pending.recipientHash)
            /\ (~ProvisionFailed(reqs[r]) /\ ProvisionFailed(reqs'[r]))
                  => /\ users' = users
                     /\ reqs'[r].settlements = <<>>
                     /\ Finished(r)']_vars

\* one confirm provisioned both parties and settled once; another confirm of
\* the same sender failed to provision, made no settlement call, and the
\* sender still holds a pending transfer
C32_Witness ==
    \E r1, r2 \in ReqIds :
        /\ r1 # r2
        /\ Is(r1, "confirmation") /\ Is(r2, "confirmation")
        /\ reqs[r1].fromHash = HashA /\ reqs[r2].fromHash = HashA
        /\ Finished(r2)
        /\ ProvisionedOk(r1, HashA) /\ ProvisionedOk(r1, HashB)
        /\ Len(reqs[r1].settlements) = 1
        /\ ProvisionFailed(reqs[r2])
        /\ reqs[r2].settlements = <<>>
        /\ HoldsPending(users, HashA)

(***************************************************************************)
(* C33.  A user record with wallet_init set belongs to an identity the    *)
(* ledger has provisioned; the flag is set only by a request whose        *)
(* provisioning call for that identity succeeded, and a provisioning call *)
(* that fails sets no flag: wallet_init of every record stays as it was.  *)
(***************************************************************************)
FlagSet(table, h) == table[h].present /\ table[h].wallet_init

C33_FlagOnlyAfterProvisioning ==
    /\ [](\A h \in Hashes : FlagSet(users, h) => h \in ledgerUsers)
    /\ [][/\ \A h \in Hashes :
                (~FlagSet(users, h) /\ FlagSet(users', h))
                   => \E r \in ReqIds : ProvisionedOk(r, h) /\ reqs'[r] # reqs[r]
          /\ \A r \in ReqIds :
                (~ProvisionFailed(reqs[r]) /\ ProvisionFailed(reqs'[r]))
                   => \A h \in Hashes : FlagSet(users', h) <=> FlagSet(users, h)]_vars

\* the flag of HashA was set by a confirm that provisioned HashA, and the
\* provisioning of HashB failed in it: the record of HashB has no flag
C33_Witness ==
    \E r \in ReqIds :
        /\ ProvisionedFresh(r, HashA)
        /\ FlagSet(users, HashA)
        /\ \E i \in 1..Len(reqs[r].provisions) :
              reqs[r].provisions[i].hash = HashB /\ ~reqs[r].provisions[i].ok
        /\ users[HashB].present /\ ~users[HashB].wallet_init
        /\ HashB \notin ledgerUsers

(***************************************************************************)
(* C34.  When a submit of the same sender whose preconditions hold has    *)
(* arrived and finished while a confirm was in flight, the sender holds   *)
(* the pending transfer of that submit when the confirm has settled and   *)
(* finishes: the confirm cleared at most the pending transfer it settled. *)
(***************************************************************************)
C34_ConfirmKeepsNewerPending ==
    [][\A r1, r2 \in ReqIds :
          (/\ r1 < r2
           /\ Is(r1, "confirmation") /\ At(r1, "confirm_clear") /\ Finished(r1)'
           /\ ValidDirect(r2) /\ Finished(r2)
           /\ reqs[r2].fromHash = reqs[r1].fromHash)
          => /\ HoldsPending(users', reqs[r1].fromHash)
             /\ users'[reqs[r1].fromHash].pending_actions.obj.amount = reqs[r2].parsed.amount
             /\ users'[reqs[r1].fromHash].pending_actions.obj.actionId
                   # reqs[r1].pending.actionId]_vars

(***************************************************************************)
(* C35.  After a cancel of the sender has cleared the pending transfer    *)
(* and answered that the transaction is cancelled, no confirm calls       *)
(* executeP2pTransfer for that pending transfer, a confirm that had       *)
(* loaded it before the cancel included.                                  *)
(***************************************************************************)
CancelledBy(r, h) ==
    /\ Is(r, "cancel") /\ Finished(r)
    /\ reqs[r].fromHash = h
    /\ reqs[r].replies = <<"Transaction cancelled">>

C35_NoSettlementAfterCancel ==
    [][\A r \in ReqIds :
          Settles(r)
          => ~\E c \in ReqIds :
                 /\ CancelledBy(c, reqs[r].fromHash)
                 /\ ~HoldsPendingId(users, reqs[r].fromHash, reqs[r].pending.actionId)]_vars

(***************************************************************************)
(* C36.  Every message gets exactly one reply: a request never writes a   *)
(* second response, and a finished request has written one.               *)
(***************************************************************************)
C36_ExactlyOneReply ==
    \A r \in ReqIds :
        /\ Len(reqs[r].replies) <= 1
        /\ Finished(r) => Len(reqs[r].replies) = 1

(***************************************************************************)
(* C37.  The recipient is notified only after the settlement call of that *)
(* confirm has succeeded, at most once for it and at the recipient phone  *)
(* of the pending transfer; a confirm that made no settlement call or     *)
(* whose settlement call failed notifies nobody.                          *)
(***************************************************************************)
ConfirmedSettlements(q) ==
    {i \in 1..Len(q.settlements) : q.settlements[i].call.outcome = "confirmed"}

C37_NotificationOnlyAfterSettlement ==
    /\ [](\A r \in ReqIds :
            /\ Len(reqs[r].notifications) <= Cardinality(ConfirmedSettlements(reqs[r]))
            /\ Len(reqs[r].notifications) <= 1
            /\ reqs[r].notifications # <<>> => Is(r, "confirmation"))
    /\ [][\A r \in ReqIds :
            Len(reqs'[r].notifications) > Len(reqs[r].notifications)
            => /\ ConfirmedSettlements(reqs[r]) # {}
               /\ reqs[r].notifications = <<>>
               /\ reqs'[r].notifications = <<reqs[r].pending.recipientPhone>>]_vars

\* one confirm settled and notified the recipient once; another confirm's
\* settlement call failed and it notified nobody
C37_Witness ==
    \E r1, r2 \in ReqIds :
        /\ r1 # r2
        /\ Finished(r1) /\ Finished(r2)
        /\ SettledOk(r1)
        /\ reqs[r1].notifications = <<E164B>>
        /\ FailedSettle(r2)
        /\ reqs[r2].notifications = <<>>

(***************************************************************************)
(* C38.  A message whose classification failed, or whose trigger is none  *)
(* of direct, confirmation, cancel and onboard, is answered with one      *)
(* fixed error reply in the step that takes it; that step leaves every    *)
(* user record, pending transfers with them, and the ledger as they were, *)
(* and the request calls neither the ledger nor the recipient.            *)
(***************************************************************************)
KnownTriggers == {"direct", "confirmation", "cancel", "onboard"}

\* classified, and no handler to go to
Unhandled(q) == q.pc # "idle" /\ q.classified /\ q.parsed.trigger \notin KnownTriggers

C38_UnhandledMessageChangesNothing ==
    /\ [](\A r \in ReqIds :
            Unhandled(reqs[r])
            => /\ Finished(r)
               /\ Len(reqs[r].replies) = 1
               /\ reqs[r].replies[1] \in {"Error parsing intent", "Invalid intent"}
               /\ reqs[r].provisions = <<>>
               /\ reqs[r].settlements = <<>>
               /\ reqs[r].notifications = <<>>)
    /\ [][\A r \in ReqIds :
            (~Arrived(r) /\ Unhandled(reqs'[r]))
            => users' = users /\ ledgerUsers' = ledgerUsers]_vars

\* while the sender held a pending transfer, one message of that sender was
\* answered 'Error parsing intent' at once and another 'Invalid intent'
C38_Witness ==
    /\ Unhandled(reqs[1]) /\ Unhandled(reqs[2])
    /\ reqs[1].fromHash = HashA /\ reqs[2].fromHash = HashA
    /\ reqs[1].replies = <<"Error parsing intent">>
    /\ reqs[2].replies = <<"Invalid intent">>
    /\ HoldsPending(users, HashA)

====
